---- MODULE Spec2Model ----
(***************************************************************************)
(* tbl (src/src/main.rs): the control plane of a self-daemonizing local    *)
(* web launcher.  The model covers the run record (pid.yaml), the          *)
(* start / attach / stop decision of every invocation, port selection,     *)
(* the per-run secret, the bootstrap / cookie / basic-auth gates and the   *)
(* one-shot shutdown channel.                                              *)
(*                                                                         *)
(* Strings are modelled as sequences of atoms: a Cookie header is the      *)
(* sequence of its ';'-separated parts, a part the sequence of its         *)
(* '='-separated fields, decoded basic-auth credentials the sequence of    *)
(* their characters.  A secret is the decimal text of a counter: the       *)
(* operating system's random source never repeats a 256-bit value.         *)
(***************************************************************************)
EXTENDS Integers, Sequences, FiniteSets, TLC

\* ------------------------------------------------------------------ bounds

\* Invocations of the command-line tool in one behaviour.
NumProcs == 2
\* Connection tasks the server may be running at once.
NumHandlers == 2
\* Longest Cookie header, in parts, a client of the authorization model sends.
MaxParts == 2
\* Longest decoded basic-auth credentials, in characters, a client sends.
MaxCredLen == 3
\* The longest run of occupied ports above a base port.
MaxOccupied == 100

\* ------------------------------------------------------- program constants

\* The built-in default of the bind address, "127.0.0.1:1234".
DefaultPort == 1234
\* find_available_port probes this many candidate ports.
MaxAttempts == 100
\* u16::MAX, where saturating_add stops.
MaxPort == 65535
\* handle_stop_command polls the port this many times after the request.
MaxPolls == 50

\* ---------------------------------------------------------- Option values

None == <<>>
Some(x) == <<x>>
IsSome(o) == o # <<>>
Unwrap(o) == o[1]

Procs == 1..NumProcs
Handlers == 1..NumHandlers

\* ------------------------------------------------------------ pure helpers

\* hex::encode of the bytes the random source returned: printable text.
HexEncode(n) == ToString(n)

\* str::trim on one part of a Cookie header: the alphabet has one atom with
\* leading white space.
Trim(fields) ==
    IF fields # <<>> /\ fields[1] = " tbl_token"
    THEN <<"tbl_token">> \o Tail(fields)
    ELSE fields

\* splitn(2, '='): the name, and everything after the first '=' as one value.
Splitn2(fields) ==
    IF Len(fields) <= 1 THEN fields ELSE <<fields[1], Tail(fields)>>

RECURSIVE CookieLoop(_, _)
CookieLoop(parts, i) ==
    IF i > Len(parts) THEN None
    ELSE LET kv == Splitn2(Trim(parts[i]))
         IN  IF Len(kv) = 2 /\ kv[1] = "tbl_token"
             THEN Some(kv[2])
             ELSE CookieLoop(parts, i + 1)

\* The loop of extract_token_from_cookie without the trim.
RECURSIVE CookieLoopNoTrim(_, _)
CookieLoopNoTrim(parts, i) ==
    IF i > Len(parts) THEN None
    ELSE LET kv == Splitn2(parts[i])
         IN  IF Len(kv) = 2 /\ kv[1] = "tbl_token"
             THEN Some(kv[2])
             ELSE CookieLoopNoTrim(parts, i + 1)

\* The mutant of extract_token_from_cookie that forgets to trim the part.
ExtractNoTrim(headers) ==
    IF headers.cookie.kind # "text" THEN None
    ELSE CookieLoopNoTrim(headers.cookie.parts, 1)

\* extract_token_from_cookie: the value of the first part named tbl_token of
\* the (first) Cookie header, when the header is visible ASCII.
extract_token_from_cookie(headers) ==
    IF headers.cookie.kind # "text" THEN None
    ELSE CookieLoop(headers.cookie.parts, 1)

\* The text of a secret as a cookie value holds it.
TokenValue(tok) == <<tok>>

RECURSIVE FirstColon(_, _)
FirstColon(s, i) ==
    IF i > Len(s) THEN 0
    ELSE IF s[i] = ":" THEN i ELSE FirstColon(s, i + 1)

\* splitn(2, ':') followed by unwrap_or(""): user and password of decoded
\* credentials.
SplitCreds(s) ==
    LET c == FirstColon(s, 1)
    IN  IF c = 0 THEN <<s, <<>>>>
        ELSE <<SubSeq(s, 1, c - 1), SubSeq(s, c + 1, Len(s))>>

check_basic_auth(headers, user, pass) ==
    /\ headers.authz.kind = "text"
    /\ headers.authz.scheme = "Basic "
    /\ headers.authz.payload = "creds"
    /\ LET up == SplitCreds(headers.authz.creds)
       IN  up[1] = user /\ up[2] = pass

\* -------------------------------------------------------------- responses

Response(status, www, body, cookie) ==
    [status |-> status, www_authenticate |-> www, body |-> body,
     set_cookie |-> cookie]

\* bootstrap_page_html: the page's script sets document.cookie to
\* "tbl_token=" + token; the Cookie part the browser sends from then on.
bootstrap_page_html(token) == Some(<<"tbl_token", token>>)

\* The mutant of bootstrap_handler that accepts any token that is present.
BootstrapAnyToken(auth_token, query) ==
    IF ~IsSome(query)
    THEN Response(400, FALSE, "missing token in query", None)
    ELSE Response(200, FALSE, "bootstrap_page",
                  bootstrap_page_html(Unwrap(query)))

\* bootstrap_handler: query is the Option<String> of the token parameter.
bootstrap_handler(auth_token, query) ==
    IF ~IsSome(query)
    THEN Response(400, FALSE, "missing token in query", None)
    ELSE IF Unwrap(query) # auth_token
    THEN Response(403, FALSE, "invalid bootstrap token", None)
    ELSE Response(200, FALSE, "bootstrap_page",
                  bootstrap_page_html(Unwrap(query)))

\* The two gates of ping_handler, in the code's order: which one rejects
\* the request ("basic", "cookie"), or "ok".
\* The mutant of ping_gate that asks for basic auth when either is configured.
PingGateEither(config, auth_token, headers) ==
    IF /\ IsSome(config.basic_user) \/ IsSome(config.basic_pass)
       /\ ~(/\ IsSome(config.basic_user) /\ IsSome(config.basic_pass)
            /\ check_basic_auth(headers, Unwrap(config.basic_user),
                                Unwrap(config.basic_pass)))
    THEN "basic"
    ELSE IF extract_token_from_cookie(headers) # Some(TokenValue(auth_token))
    THEN "cookie"
    ELSE "ok"

ping_gate(config, auth_token, headers) ==
    IF /\ IsSome(config.basic_user) /\ IsSome(config.basic_pass)
       /\ ~check_basic_auth(headers, Unwrap(config.basic_user),
                            Unwrap(config.basic_pass))
    THEN "basic"
    ELSE IF extract_token_from_cookie(headers) # Some(TokenValue(auth_token))
    THEN "cookie"
    ELSE "ok"

\* The mutant of shutdown_gate that leaves out the cookie check.
ShutdownGateNoCookie(config, auth_token, headers) ==
    IF /\ IsSome(config.basic_user) /\ IsSome(config.basic_pass)
       /\ ~check_basic_auth(headers, Unwrap(config.basic_user),
                            Unwrap(config.basic_pass))
    THEN "basic"
    ELSE "ok"

\* The same two gates as shutdown_handler repeats them.
shutdown_gate(config, auth_token, headers) ==
    IF /\ IsSome(config.basic_user) /\ IsSome(config.basic_pass)
       /\ ~check_basic_auth(headers, Unwrap(config.basic_user),
                            Unwrap(config.basic_pass))
    THEN "basic"
    ELSE IF extract_token_from_cookie(headers) # Some(TokenValue(auth_token))
    THEN "cookie"
    ELSE "ok"

\* The response of a request a gate rejected.
Rejection(gate) ==
    IF gate = "basic"
    THEN Response(401, TRUE, "basic auth required", None)
    ELSE Response(401, FALSE, "missing or invalid auth cookie", None)

ping_handler(config, auth_token, headers) ==
    LET gate == ping_gate(config, auth_token, headers)
    IN  IF gate # "ok" THEN Rejection(gate)
        ELSE Response(200, FALSE, "{status:ok}", None)

ShutdownConfirmation == Response(200, FALSE, "{status:shutting_down}", None)

\* ------------------------------------------------------------------ state

VARIABLES
    runFile,       \* run/pid.yaml: None, or Some(its content)
    cfgFile,       \* config.json: None, or Some(port of its addr field)
    envCfg,        \* the TBL_* environment every invocation runs with
    host,          \* the host part of the configured bind address
    req,           \* authorization model: the request its client sends
    extOpen,       \* ports on which a foreign process is listening
    nextToken,     \* how many secrets the random source has handed out
    pc,            \* where each invocation is in main / handle_stop_command
    outcome,       \* how an invocation ended ("" while it runs)
    cfg,           \* effective_cfg of a start invocation
    info,          \* the RunInfo an invocation loaded (an Option)
    auth_token,    \* AppState.auth_token
    chosen_port,   \* the port find_available_port returned (0: none yet)
    shutdown_tx,   \* AppState.shutdown_tx holds Some(sender)
    shutdown_rx,   \* the one-shot channel holds the value sent
    peer,          \* stop: the server its shutdown request reached (0: none)
    polls,         \* stop: liveness polls made so far in the loop (0 outside it)
    hpc,           \* connection task: position in shutdown_handler
    hsrv,          \* connection task: the server it runs in (0: none)
    mutex,         \* per server: the task holding the shutdown_tx lock (0: free)
    resp,          \* the last exchange a client of the server completed
    jar,           \* the browser's cookie jar: the part a bootstrap page set
    memo,          \* an earlier exchange, kept to compare a later one with
    sends,         \* per server: how many times tx.send(()) ran
    okReq,         \* per server: a shutdown request with the right credentials came
    served,        \* per server: its listener was bound
    sawLive,       \* per invocation: the servers listening when it began
    doneBefore,    \* per invocation: the invocations over when it began
    daemonized,    \* per invocation: TBL_DAEMONIZED is set for the process
    spawned,       \* per invocation: the children cmd.spawn() started
    printed,       \* per invocation: the URL of the running instance it
                   \* printed (an Option)
    parent_exit,   \* per invocation: the exit code of the process that ran
                   \* the daemonize block (an Option)
    replayed       \* a secret of an earlier run was presented to a later one

procVars == <<pc, outcome, cfg, info, auth_token, chosen_port, shutdown_tx,
              shutdown_rx, peer, polls>>
fileVars == <<runFile, cfgFile>>
envVars == <<envCfg, host, req>>
taskVars == <<hpc, hsrv, mutex>>
spawnVars == <<daemonized, spawned, parent_exit>>
ghostVars == <<sends, okReq, served, sawLive, doneBefore, replayed>>
vars == <<runFile, cfgFile, envCfg, host, req, extOpen, nextToken, pc, outcome, cfg,
          info, auth_token, chosen_port, shutdown_tx, shutdown_rx, peer,
          polls, hpc, hsrv, mutex, resp, jar, memo, sends, okReq, served, sawLive,
          doneBefore, daemonized, spawned, parent_exit, printed, replayed>>

\* ---------------------------------------------------------- configuration

\* Option::or
OrElse(a, b) == IF IsSome(a) THEN a ELSE b

\* User names and passwords a configuration may hold: text over 'a' and ':'.
UserTexts == {<<"a">>, <<":">>}
PassTexts == {<<"a">>, <<":">>}

NoConfig == [addr |-> None, tls_cert |-> None, tls_key |-> None,
             basic_user |-> None, basic_pass |-> None]

\* The environments of the lifecycle model: TLS on or off, basic auth on or off.
LifeEnvs ==
    {[addr |-> None, tls_cert |-> t, tls_key |-> t,
      basic_user |-> b, basic_pass |-> b] :
        t \in {None, Some("pem")}, b \in {None, Some(<<"a">>)}}

\* The environments of the authorization model: every combination of a user
\* name and a password being set, no TLS.
ServeEnvs ==
    {[addr |-> None, tls_cert |-> None, tls_key |-> None,
      basic_user |-> u, basic_pass |-> w] :
        u \in {None} \cup {Some(x) : x \in UserTexts},
        w \in {None} \cup {Some(x) : x \in PassTexts}}

\* The mutant of MergeConfig that lets the environment override the flags.
MergeEnvFirst(cli, env, file) ==
    [addr |-> OrElse(OrElse(OrElse(env.addr, cli.addr), file.addr),
                     Some(DefaultPort)),
     tls_cert |-> OrElse(OrElse(env.tls_cert, cli.tls_cert), file.tls_cert),
     tls_key |-> OrElse(OrElse(env.tls_key, cli.tls_key), file.tls_key),
     basic_user |-> OrElse(OrElse(env.basic_user, cli.basic_user),
                           file.basic_user),
     basic_pass |-> OrElse(OrElse(env.basic_pass, cli.basic_pass),
                           file.basic_pass)]

\* The merge of main: flag, then environment, then file, then default.
MergeConfig(cli, env, file) ==
    [addr |-> OrElse(OrElse(OrElse(cli.addr, env.addr), file.addr),
                     Some(DefaultPort)),
     tls_cert |-> OrElse(OrElse(cli.tls_cert, env.tls_cert), file.tls_cert),
     tls_key |-> OrElse(OrElse(cli.tls_key, env.tls_key), file.tls_key),
     basic_user |-> OrElse(OrElse(cli.basic_user, env.basic_user),
                           file.basic_user),
     basic_pass |-> OrElse(OrElse(cli.basic_pass, env.basic_pass),
                           file.basic_pass)]

tls_enabled(c) == IsSome(c.tls_cert) /\ IsSome(c.tls_key)

\* ------------------------------------------------------------ run record

RunInfo(pid, port, token, tls) ==
    [pid |-> pid, port |-> port, auth_token |-> token, tls |-> tls]

\* The content of a pid.yaml that does not deserialize as RunInfo: the
\* empty file fs::write leaves between truncating and writing, or any other
\* text that is not the YAML of a RunInfo.
Garbled == [pid |-> 0, port |-> 0, auth_token |-> "", tls |-> FALSE]

\* serde_yaml::from_str::<RunInfo>(&content).ok()
FromYaml(content) == IF content = Garbled THEN None ELSE Some(content)

\* The mutant of load_run_info that returns whatever the file holds.
LoadUnparsed == runFile

\* fs::read_to_string(path).ok()?, then the deserialization.
load_run_info == IF IsSome(runFile) THEN FromYaml(Unwrap(runFile)) ELSE None

\* fs::write opens the file with truncation, then writes the bytes.
TruncateFile == runFile' = Some(Garbled)
save_run_info(r) == runFile' = Some(r)

\* The mutant of clear_run_info that removes nothing.
ClearRemovesNothing == UNCHANGED runFile

clear_run_info == runFile' = None

\* ------------------------------------------------------------------ ports

Listening(q) == pc[q] = "serving"

\* The ports a TCP connect to 127.0.0.1 succeeds on.
OpenPorts == extOpen \cup {chosen_port[q] : q \in {r \in Procs : Listening(r)}}

\* The mutant of port_is_open that probes the port after the one it is given.
PortIsOpenNextPort(port) == (port + 1) \in OpenPorts

port_is_open(port) == port \in OpenPorts

\* u16::saturating_add(1)
\* The mutant of SaturatingAdd1 that wraps around as a u16 addition would.
WrappingAdd1(port) == (port + 1) % (MaxPort + 1)

SaturatingAdd1(port) == IF port >= MaxPort THEN MaxPort ELSE port + 1

\* The host part of the bind address: an IP address literal, or a name.
LocalHost == "127.0.0.1"
Hosts == {LocalHost, "localhost"}

\* "{host}:{port}".parse::<SocketAddr>() succeeds: SocketAddr parses IP
\* address literals only, it resolves no names.
ParsesAsSocketAddr(h) == h = LocalHost

\* The loop of find_available_port: a port is returned when the address
\* parses and the connect to it fails.
RECURSIVE FindLoop(_, _, _, _, _)
FindLoop(h, open, base_port, port, left) ==
    IF left = 0 THEN base_port
    ELSE IF ParsesAsSocketAddr(h) /\ port \notin open THEN port
    ELSE FindLoop(h, open, base_port, SaturatingAdd1(port), left - 1)

\* The mutant of find_available_port that starts at the port after the base.
FindSkipsBase(h, open, base_port) ==
    FindLoop(h, open, base_port, SaturatingAdd1(base_port), MaxAttempts)

find_available_port(h, open, base_port) ==
    FindLoop(h, open, base_port, base_port, MaxAttempts)

\* The mutant of generate_token that hands out the secret of the run before
\* again.
GenerateTokenFromRecord(n) ==
    IF n > 0 THEN HexEncode(n) ELSE HexEncode(n + 1)

\* generate_token: 32 bytes of the operating system's random source, hex
\* encoded; n secrets were handed out before.
generate_token(n) == HexEncode(n + 1)

\* ----------------------------------------------------- start invocations

\* An invocation begins: the slots are used in order.
CanBegin(p) == pc[p] = "new" /\ \A r \in Procs : r < p => pc[r] # "new"

Begin(p) ==
    /\ sawLive' = [sawLive EXCEPT ![p] = {q \in Procs : Listening(q)}]
    /\ doneBefore' = [doneBefore EXCEPT ![p] = {q \in Procs : pc[q] = "exited"}]

\* The base ports a --addr flag may give.
CliAddrs == {None, Some(DefaultPort + 1)}

\* The most children one invocation is followed through.
MaxSpawn == 2

\* The mutant of Daemonize whose child does not carry TBL_DAEMONIZED.
DaemonizeUnmarked(p) ==
    /\ \/ CanBegin(p) /\ Begin(p)
       \/ pc[p] = "main" /\ UNCHANGED <<sawLive, doneBefore>>
    /\ ~daemonized[p]
    /\ spawned[p] < MaxSpawn
    /\ spawned' = [spawned EXCEPT ![p] = @ + 1]
    /\ parent_exit' = [parent_exit EXCEPT ![p] = OrElse(@, Some(0))]
    /\ pc' = [pc EXCEPT ![p] = "main"]
    /\ UNCHANGED <<fileVars, envVars, extOpen, nextToken, outcome, cfg, info,
                   auth_token, chosen_port, shutdown_tx, shutdown_rx, peer,
                   polls, taskVars, resp, jar, memo, sends, okReq, served,
                   replayed, daemonized, printed>>

\* main, run by a process without TBL_DAEMONIZED (the one the user started,
\* or a child that was left unmarked): it spawns the executable again with
\* TBL_DAEMONIZED=1 and returns Ok(()), or returns the error of a failed
\* spawn.  The slot follows the child, which is at the top of main.
Daemonize(p) ==
    /\ \/ CanBegin(p) /\ Begin(p)
       \/ pc[p] = "main" /\ UNCHANGED <<sawLive, doneBefore>>
    /\ ~daemonized[p]
    /\ spawned[p] < MaxSpawn
    /\ \/ /\ spawned' = [spawned EXCEPT ![p] = @ + 1]
          /\ daemonized' = [daemonized EXCEPT ![p] = TRUE]
          /\ parent_exit' = [parent_exit EXCEPT ![p] = OrElse(@, Some(0))]
          /\ pc' = [pc EXCEPT ![p] = "main"]
          /\ UNCHANGED outcome
       \/ /\ parent_exit' = [parent_exit EXCEPT ![p] = OrElse(@, Some(1))]
          /\ pc' = [pc EXCEPT ![p] = "exited"]
          /\ outcome' = [outcome EXCEPT ![p] = "spawn_failed"]
          /\ UNCHANGED <<spawned, daemonized>>
    /\ UNCHANGED <<fileVars, envVars, extOpen, nextToken, cfg, info,
                   auth_token, chosen_port, shutdown_tx, shutdown_rx, peer,
                   polls, taskVars, resp, jar, memo, sends, okReq, served,
                   replayed, printed>>

\* main, run by a process with TBL_DAEMONIZED: it goes on to its configuration.
\* Until the merge, cfg holds the flags Cli::parse() returned.
RunDaemon(p) ==
    /\ pc[p] = "main"
    /\ daemonized[p]
    /\ \E a \in CliAddrs :
          cfg' = [cfg EXCEPT ![p] = [NoConfig EXCEPT !.addr = a]]
    /\ pc' = [pc EXCEPT ![p] = "config"]
    /\ UNCHANGED <<fileVars, envVars, spawnVars, printed, extOpen, nextToken, outcome,
                   info, auth_token, chosen_port, shutdown_tx,
                   shutdown_rx, peer, polls, taskVars, resp, jar, memo,
                   ghostVars>>

\* load_config(...).unwrap_or_default() and the merge with flags and environment.
LoadConfig(p) ==
    /\ pc[p] = "config"
    /\ cfg' = [cfg EXCEPT ![p] =
                 MergeConfig(cfg[p], envCfg,
                             IF IsSome(cfgFile) THEN Unwrap(cfgFile)
                             ELSE NoConfig)]
    /\ pc' = [pc EXCEPT ![p] = "load"]
    /\ UNCHANGED <<fileVars, envVars, spawnVars, printed, extOpen, nextToken, outcome, info,
                   auth_token, chosen_port, shutdown_tx, shutdown_rx, peer,
                   polls, taskVars, resp, jar, memo, ghostVars>>

\* let maybe_run_info = load_run_info(&run_dir)
LoadRunInfo(p) ==
    /\ pc[p] = "load"
    /\ info' = [info EXCEPT ![p] = load_run_info]
    /\ pc' = [pc EXCEPT ![p] = IF IsSome(load_run_info) THEN "probe" ELSE "start"]
    /\ UNCHANGED <<fileVars, envVars, spawnVars, printed, extOpen, nextToken, outcome, cfg,
                   auth_token, chosen_port, shutdown_tx, shutdown_rx, peer,
                   polls, taskVars, resp, jar, memo, ghostVars>>

\* The mutant of ProbeRecorded that trusts the record without the probe.
AttachUnprobed(p) ==
    /\ pc[p] = "probe"
    /\ pc' = [pc EXCEPT ![p] = "exited"]
    /\ outcome' = [outcome EXCEPT ![p] = "attached"]
    /\ UNCHANGED <<fileVars, envVars, spawnVars, printed, extOpen, nextToken, cfg, info,
                   auth_token, chosen_port, shutdown_tx, shutdown_rx, peer,
                   polls, taskVars, resp, jar, memo, ghostVars>>

\* format!("{}://127.0.0.1:{}/bootstrap?token={}", scheme, info.port,
\* info.auth_token), as its three variable parts.
public_url(i) ==
    [scheme |-> IF i.tls THEN "https" ELSE "http", port |-> i.port,
     token |-> i.auth_token]

\* The URL with the scheme fixed to http.
HttpUrl(i) == [scheme |-> "http", port |-> i.port, token |-> i.auth_token]

\* The mutant of ProbeRecorded that prints an http URL whatever the record says.
ProbeRecordedPrintsHttp(p) ==
    /\ pc[p] = "probe"
    /\ IF port_is_open(Unwrap(info[p]).port)
       THEN /\ pc' = [pc EXCEPT ![p] = "exited"]
            /\ outcome' = [outcome EXCEPT ![p] = "attached"]
            /\ printed' = [printed EXCEPT ![p] = Some(HttpUrl(Unwrap(info[p])))]
       ELSE /\ pc' = [pc EXCEPT ![p] = "clear"]
            /\ UNCHANGED <<outcome, printed>>
    /\ UNCHANGED <<fileVars, envVars, spawnVars, extOpen, nextToken, cfg, info,
                   auth_token, chosen_port, shutdown_tx, shutdown_rx, peer,
                   polls, taskVars, resp, jar, memo, ghostVars>>

\* if port_is_open(info.port): print the running instance's URL and return
\* Ok(()); else the record is stale.
ProbeRecorded(p) ==
    /\ pc[p] = "probe"
    /\ IF port_is_open(Unwrap(info[p]).port)
       THEN /\ pc' = [pc EXCEPT ![p] = "exited"]
            /\ outcome' = [outcome EXCEPT ![p] = "attached"]
            /\ printed' = [printed EXCEPT ![p] = Some(public_url(Unwrap(info[p])))]
       ELSE /\ pc' = [pc EXCEPT ![p] = "clear"]
            /\ UNCHANGED <<outcome, printed>>
    /\ UNCHANGED <<fileVars, envVars, spawnVars, extOpen, nextToken, cfg, info,
                   auth_token, chosen_port, shutdown_tx, shutdown_rx, peer,
                   polls, taskVars, resp, jar, memo, ghostVars>>

\* The mutant of ClearStale that goes on with the stale record in place.
ClearStaleKeeps(p) ==
    /\ pc[p] = "clear"
    /\ pc' = [pc EXCEPT ![p] = "start"]
    /\ UNCHANGED <<fileVars, envVars, spawnVars, printed, extOpen, nextToken, outcome, cfg, info,
                   auth_token, chosen_port, shutdown_tx, shutdown_rx, peer,
                   polls, taskVars, resp, jar, memo, ghostVars>>

\* clear_run_info(&run_dir) on the stale branch.
ClearStale(p) ==
    /\ pc[p] = "clear"
    /\ clear_run_info
    /\ pc' = [pc EXCEPT ![p] = "start"]
    /\ UNCHANGED <<cfgFile, envVars, spawnVars, printed, extOpen, nextToken, outcome, cfg, info,
                   auth_token, chosen_port, shutdown_tx, shutdown_rx, peer,
                   polls, taskVars, resp, jar, memo, ghostVars>>

\* generate_token, the one-shot channel, AppState, and port selection; the
\* chosen address is parsed, and `?` returns the error if it does not parse.
PrepareServer(p) ==
    /\ pc[p] = "start"
    /\ auth_token' = [auth_token EXCEPT ![p] = generate_token(nextToken)]
    /\ nextToken' = nextToken + 1
    /\ shutdown_tx' = [shutdown_tx EXCEPT ![p] = TRUE]
    /\ chosen_port' = [chosen_port EXCEPT ![p] =
                         find_available_port(host, OpenPorts,
                                             Unwrap(cfg[p].addr))]
    /\ IF ParsesAsSocketAddr(host)
       THEN /\ pc' = [pc EXCEPT ![p] = "savecfg"]
            /\ UNCHANGED outcome
       ELSE /\ pc' = [pc EXCEPT ![p] = "exited"]
            /\ outcome' = [outcome EXCEPT ![p] = "addr_invalid"]
    /\ UNCHANGED <<fileVars, envVars, spawnVars, printed, extOpen, cfg, info,
                   shutdown_rx, peer, polls, taskVars, resp, jar, memo, ghostVars>>

\* effective_cfg.addr = chosen port; save_config.
SaveConfig(p) ==
    /\ pc[p] = "savecfg"
    /\ cfg' = [cfg EXCEPT ![p].addr = Some(chosen_port[p])]
    /\ cfgFile' = Some(cfg'[p])
    /\ pc' = [pc EXCEPT ![p] = "saverun"]
    /\ UNCHANGED <<runFile, envVars, spawnVars, printed, extOpen, nextToken, outcome, info,
                   auth_token, chosen_port, shutdown_tx, shutdown_rx, peer,
                   polls, taskVars, resp, jar, memo, ghostVars>>

\* save_run_info, first half: pid.yaml is created or truncated.
OpenRunFile(p) ==
    /\ pc[p] = "saverun"
    /\ TruncateFile
    /\ pc' = [pc EXCEPT ![p] = "writerun"]
    /\ UNCHANGED <<cfgFile, envVars, spawnVars, printed, extOpen, nextToken, outcome, cfg, info,
                   auth_token, chosen_port, shutdown_tx, shutdown_rx, peer,
                   polls, taskVars, resp, jar, memo, ghostVars>>

\* save_run_info, second half: the YAML of the record is written.
SaveRunInfo(p) ==
    /\ pc[p] = "writerun"
    /\ save_run_info(RunInfo(p, chosen_port[p], auth_token[p],
                             tls_enabled(cfg[p])))
    /\ pc' = [pc EXCEPT ![p] = "listen"]
    /\ UNCHANGED <<cfgFile, envVars, spawnVars, printed, extOpen, nextToken, outcome, cfg, info,
                   auth_token, chosen_port, shutdown_tx, shutdown_rx, peer,
                   polls, taskVars, resp, jar, memo, ghostVars>>

\* The TLS branch cannot read the certificate or key: `?` returns the error.
ListenTlsUnreadable(p) ==
    /\ pc[p] = "listen"
    /\ tls_enabled(cfg[p])
    /\ pc' = [pc EXCEPT ![p] = "exited"]
    /\ outcome' = [outcome EXCEPT ![p] = "tls_failed"]
    /\ UNCHANGED <<fileVars, envVars, spawnVars, printed, extOpen, nextToken, cfg, info,
                   auth_token, chosen_port, shutdown_tx, shutdown_rx, peer,
                   polls, taskVars, resp, jar, memo, ghostVars>>

\* The mutant of ListenBound that serves on a port the system picks when the
\* chosen one is taken.
ListenBoundElsewhere(p) ==
    /\ pc[p] = "listen"
    /\ pc' = [pc EXCEPT ![p] = "serving"]
    /\ served' = [served EXCEPT ![p] = TRUE]
    /\ UNCHANGED <<fileVars, envVars, spawnVars, printed, extOpen, nextToken, outcome, cfg, info,
                   auth_token, chosen_port, shutdown_tx, shutdown_rx, peer,
                   polls, taskVars, resp, jar, memo, sends, okReq, sawLive,
                   doneBefore, replayed>>

\* The listener is bound and the server starts to accept.
ListenBound(p) ==
    /\ pc[p] = "listen"
    /\ chosen_port[p] \notin OpenPorts
    /\ pc' = [pc EXCEPT ![p] = "serving"]
    /\ served' = [served EXCEPT ![p] = TRUE]
    /\ UNCHANGED <<fileVars, envVars, spawnVars, printed, extOpen, nextToken, outcome, cfg, info,
                   auth_token, chosen_port, shutdown_tx, shutdown_rx, peer,
                   polls, taskVars, resp, jar, memo, sends, okReq, sawLive,
                   doneBefore, replayed>>

\* The port is taken.  Without TLS, TcpListener::bind(addr).await? returns the
\* error from main.  With TLS the bind happens inside the serve future, whose
\* error the select! arm prints before main goes on to its cleanup.
ListenBindFails(p) ==
    /\ pc[p] = "listen"
    /\ chosen_port[p] \in OpenPorts
    /\ IF tls_enabled(cfg[p])
       THEN /\ pc' = [pc EXCEPT ![p] = "cleanup"]
            /\ outcome' = [outcome EXCEPT ![p] = "server_error"]
       ELSE /\ pc' = [pc EXCEPT ![p] = "exited"]
            /\ outcome' = [outcome EXCEPT ![p] = "bind_failed"]
    /\ UNCHANGED <<fileVars, envVars, spawnVars, printed, extOpen, nextToken, cfg, info,
                   auth_token, chosen_port, shutdown_tx, shutdown_rx, peer,
                   polls, taskVars, resp, jar, memo, ghostVars>>

\* select!: the shutdown_rx arm completes; the serve future, and the listener
\* in it, is dropped.
ShutdownSelected(p) ==
    /\ pc[p] = "serving"
    /\ shutdown_rx[p]
    /\ pc' = [pc EXCEPT ![p] = "cleanup"]
    /\ UNCHANGED <<fileVars, envVars, spawnVars, printed, extOpen, nextToken, outcome, cfg, info,
                   auth_token, chosen_port, shutdown_tx, shutdown_rx, peer,
                   polls, taskVars, resp, jar, memo, ghostVars>>

\* Cleanup pid.yaml on shutdown; main returns Ok(()) and the runtime drops
\* the connection tasks still running.
Cleanup(p) ==
    /\ pc[p] = "cleanup"
    /\ clear_run_info
    /\ pc' = [pc EXCEPT ![p] = "exited"]
    /\ outcome' = [outcome EXCEPT ![p] =
                     IF @ = "server_error" THEN @ ELSE "stopped"]
    /\ hpc' = [h \in Handlers |-> IF hsrv[h] = p THEN "idle" ELSE hpc[h]]
    /\ hsrv' = [h \in Handlers |-> IF hsrv[h] = p THEN 0 ELSE hsrv[h]]
    /\ mutex' = [mutex EXCEPT ![p] = 0]
    /\ UNCHANGED <<cfgFile, envVars, spawnVars, printed, extOpen, nextToken, cfg, info,
                   auth_token, chosen_port, shutdown_tx, shutdown_rx, peer,
                   polls, resp, jar, memo, ghostVars>>

\* The process exit code of an ended invocation.
ExitCode(p) ==
    IF outcome[p] \in {"spawn_failed", "addr_invalid", "tls_failed",
                       "bind_failed"}
    THEN 1 ELSE 0

\* ---------------------------------------------------------------- requests

NoCookie == [kind |-> "absent", parts |-> <<>>]
\* A Cookie header that is not visible ASCII: to_str() fails.
OpaqueCookie == [kind |-> "opaque", parts |-> <<>>]
Cookie(parts) == [kind |-> "text", parts |-> parts]

NoAuthz == [kind |-> "absent", scheme |-> "", payload |-> "", creds |-> <<>>]
OpaqueAuthz == [kind |-> "opaque", scheme |-> "", payload |-> "", creds |-> <<>>]
\* An Authorization header: its scheme prefix, and what the rest decodes to
\* ("creds": base64 of UTF-8 text; "badb64"; "badutf8").
Authz(scheme, payload, creds) ==
    [kind |-> "text", scheme |-> scheme, payload |-> payload, creds |-> creds]
\* What a client following RFC 7617 sends for a user name and a password.
Basic(user, pass) == Authz("Basic ", "creds", user \o <<":">> \o pass)

Headers(cookie, authz) == [cookie |-> cookie, authz |-> authz]

\* The request send_shutdown_request writes: the cookie, no Authorization.
StopHeaders(token) == Headers(Cookie(<<<<"tbl_token", token>>>>), NoAuthz)

\* The headers of a client that knows secret `token` and the configured
\* user name and password, if both are configured.
CanonHeaders(config, token) ==
    Headers(Cookie(<<<<"tbl_token", token>>>>),
            IF IsSome(config.basic_user) /\ IsSome(config.basic_pass)
            THEN Basic(Unwrap(config.basic_user), Unwrap(config.basic_pass))
            ELSE NoAuthz)

\* Secrets handed out so far, and one that never was.
LifeTokens == {"0"} \cup {HexEncode(n) : n \in 1..nextToken}

\* The requests of the lifecycle model's clients.
LifeHeaders(config) ==
    {Headers(c, a) :
        c \in {NoCookie} \cup {Cookie(<<<<"tbl_token", t>>>>) : t \in LifeTokens},
        a \in {NoAuthz, CanonHeaders(config, "0").authz}}

LifeQueries == {None} \cup {Some(t) : t \in LifeTokens}

RECURSIVE SeqsUpTo(_, _)
SeqsUpTo(S, n) ==
    IF n = 0 THEN {<<>>}
    ELSE LET shorter == SeqsUpTo(S, n - 1)
         IN  shorter \cup {Append(x, a) : x \in shorter, a \in S}

\* The parts of the Cookie headers of the authorization model.  "1" is the
\* server's secret there, "0" was never issued.
ServeParts ==
    {<<"tbl_token">>, <<"tbl_token", "0">>, <<"tbl_token", "1">>,
     <<" tbl_token", "1">>, <<"other", "1">>, <<"tbl_token", "1", "1">>}

ServeCookies ==
    {NoCookie, OpaqueCookie} \cup {Cookie(x) : x \in SeqsUpTo(ServeParts, MaxParts)}

ServeAuthz ==
    {NoAuthz, OpaqueAuthz, Authz("Bearer ", "creds", <<"a", ":", "a">>),
     Authz("basic ", "creds", <<"a", ":", "a">>),
     Authz("Basic ", "badb64", <<>>), Authz("Basic ", "badutf8", <<>>)}
    \cup {Authz("Basic ", "creds", x) : x \in SeqsUpTo({"a", ":"}, MaxCredLen)}

ServeHeaders == {Headers(c, a) : c \in ServeCookies, a \in ServeAuthz}

ServeQueries == {None, Some(""), Some("0"), Some("1")}

\* A Cookie header holds a tbl_token cookie with this secret as its value.
CarriesCookie(headers, token) ==
    /\ headers.cookie.kind = "text"
    /\ \E i \in 1..Len(headers.cookie.parts) :
          headers.cookie.parts[i] \in
              {<<"tbl_token", token>>, <<" tbl_token", token>>}

\* A request carries everything the configuration asks of a privileged one.
RightCredentials(config, token, headers) ==
    /\ CarriesCookie(headers, token)
    /\ IsSome(config.basic_user) /\ IsSome(config.basic_pass)
          => headers.authz = Basic(Unwrap(config.basic_user),
                                   Unwrap(config.basic_pass))

\* The secrets a request presents: its query token, its cookie values.
Presented(query, headers) ==
    (IF IsSome(query) THEN {Unwrap(query)} ELSE {})
    \cup {t \in LifeTokens : CarriesCookie(headers, t)}

\* Secrets of the runs that are over.
OtherSecrets(q) ==
    {auth_token[r] : r \in {x \in Procs \ {q} : pc[x] = "exited"}} \ {""}

Replay(q, query, headers, status) ==
    IF Presented(query, headers) \cap OtherSecrets(q) = {} THEN replayed
    ELSE IF status = 200 \/ replayed = "accepted" THEN "accepted"
    ELSE "rejected"

NoResp == [ep |-> "none", srv |-> 0, query |-> None,
           headers |-> Headers(NoCookie, NoAuthz),
           response |-> Response(0, FALSE, "", None), sent |-> FALSE]

NoReq == [query |-> None, headers |-> Headers(NoCookie, NoAuthz)]

Exchange(ep, q, query, headers, response, sent) ==
    [ep |-> ep, srv |-> q, query |-> query, headers |-> headers,
     response |-> response, sent |-> sent]

\* ------------------------------------------------------- shutdown channel

\* The mutant of take_and_send that unwraps the Option.
TakeUnwraps(tx) == [tx |-> FALSE, sent |-> tx, fault |-> ~tx]

\* if let Some(tx) = tx_guard.take() { let _ = tx.send(()); }
\* tx: the Option holds a sender.  The Option is None afterwards; the value
\* is sent if there was a sender; nothing faults.
take_and_send(tx) == [tx |-> FALSE, sent |-> tx, fault |-> FALSE]

\* ---------------------------------------- exchanges run to completion

\* GET /bootstrap?token=...  (rec: the exchange is kept in resp)
BootstrapExchange(q, query, rec) ==
    /\ Listening(q)
    /\ LET r == bootstrap_handler(auth_token[q], query)
       IN  /\ resp' = IF rec
                      THEN Exchange("bootstrap", q, query,
                                    Headers(NoCookie, NoAuthz), r, FALSE)
                      ELSE resp
           /\ jar' = IF rec /\ IsSome(r.set_cookie) THEN r.set_cookie ELSE jar
           /\ replayed' = Replay(q, query, Headers(NoCookie, NoAuthz), r.status)
    /\ UNCHANGED <<fileVars, envVars, spawnVars, printed, extOpen, nextToken, procVars, taskVars,
                   memo, sends, okReq, served, sawLive, doneBefore>>

\* The mutant of PingExchange that locks a client out after a rejected
\* request: the answer depends on the exchange before.
PingExchangeLockout(q, headers, rec) ==
    /\ Listening(q)
    /\ LET r == IF resp.response.status = 401
                THEN Rejection("cookie")
                ELSE ping_handler(cfg[q], auth_token[q], headers)
       IN  /\ resp' = IF rec
                      THEN Exchange("ping", q, None, headers, r, FALSE)
                      ELSE resp
           /\ replayed' = Replay(q, None, headers, r.status)
    /\ UNCHANGED <<fileVars, envVars, spawnVars, printed, extOpen, nextToken, procVars, taskVars,
                   jar, memo, sends, okReq, served, sawLive, doneBefore>>

\* GET /api/v1/ping
PingExchange(q, headers, rec) ==
    /\ Listening(q)
    /\ LET r == ping_handler(cfg[q], auth_token[q], headers)
       IN  /\ resp' = IF rec
                      THEN Exchange("ping", q, None, headers, r, FALSE)
                      ELSE resp
           /\ replayed' = Replay(q, None, headers, r.status)
    /\ UNCHANGED <<fileVars, envVars, spawnVars, printed, extOpen, nextToken, procVars, taskVars,
                   jar, memo, sends, okReq, served, sawLive, doneBefore>>

\* POST /api/v1/shutdown, the handler run from its first line to its last
\* while no other task holds the lock.
ShutdownExchange(q, headers, rec) ==
    /\ Listening(q)
    /\ LET gate == shutdown_gate(cfg[q], auth_token[q], headers)
           t == take_and_send(shutdown_tx[q])
           r == IF gate = "ok" THEN ShutdownConfirmation ELSE Rejection(gate)
       IN  /\ gate = "ok" => mutex[q] = 0 /\ ~t.fault
           /\ shutdown_tx' = IF gate = "ok"
                             THEN [shutdown_tx EXCEPT ![q] = t.tx]
                             ELSE shutdown_tx
           /\ shutdown_rx' = IF gate = "ok" /\ t.sent
                             THEN [shutdown_rx EXCEPT ![q] = TRUE]
                             ELSE shutdown_rx
           /\ sends' = IF gate = "ok" /\ t.sent
                       THEN [sends EXCEPT ![q] = @ + 1]
                       ELSE sends
           /\ resp' = IF rec
                      THEN Exchange("shutdown", q, None, headers, r,
                                    gate = "ok" /\ t.sent)
                      ELSE resp
           /\ replayed' = Replay(q, None, headers, r.status)
    /\ okReq' = [okReq EXCEPT ![q] =
                    @ \/ RightCredentials(cfg[q], auth_token[q], headers)]
    /\ UNCHANGED <<fileVars, envVars, spawnVars, printed, extOpen, nextToken, pc, outcome, cfg,
                   info, auth_token, chosen_port, peer, polls, taskVars, jar,
                   memo, served, sawLive, doneBefore>>

\* ------------------------------------ shutdown_handler, one task at a time

Alive(q) == pc[q] \in {"serving", "cleanup"}

\* A connection is accepted and the task runs both gates.
TaskAccept(h, q) ==
    /\ hpc[h] = "idle"
    /\ Listening(q)
    /\ LET headers == CanonHeaders(cfg[q], auth_token[q])
           gate == shutdown_gate(cfg[q], auth_token[q], headers)
       IN  /\ IF gate = "ok"
              THEN /\ hpc' = [hpc EXCEPT ![h] = "lock"]
                   /\ hsrv' = [hsrv EXCEPT ![h] = q]
                   /\ UNCHANGED resp
              ELSE /\ resp' = Exchange("shutdown", q, None, headers,
                                       Rejection(gate), FALSE)
                   /\ UNCHANGED <<hpc, hsrv>>
           /\ okReq' = [okReq EXCEPT ![q] =
                     @ \/ RightCredentials(cfg[q], auth_token[q], headers)]
    /\ UNCHANGED <<fileVars, envVars, spawnVars, printed, extOpen, nextToken, procVars, mutex,
                   jar, memo, sends, served, sawLive, doneBefore, replayed>>

\* let mut tx_guard = state.shutdown_tx.lock().await
TaskLock(h) ==
    /\ hpc[h] = "lock"
    /\ Alive(hsrv[h])
    /\ mutex[hsrv[h]] = 0
    /\ mutex' = [mutex EXCEPT ![hsrv[h]] = h]
    /\ hpc' = [hpc EXCEPT ![h] = "take"]
    /\ UNCHANGED <<fileVars, envVars, spawnVars, printed, extOpen, nextToken, procVars, hsrv,
                   resp, jar, memo, ghostVars>>

\* tx_guard.take() and tx.send(()) under the lock.
TaskTake(h) ==
    /\ hpc[h] = "take"
    /\ Alive(hsrv[h])
    /\ LET q == hsrv[h]
           t == take_and_send(shutdown_tx[q])
       IN  /\ shutdown_tx' = [shutdown_tx EXCEPT ![q] = t.tx]
           /\ shutdown_rx' = [shutdown_rx EXCEPT ![q] = @ \/ t.sent]
           /\ sends' = [sends EXCEPT ![q] = IF t.sent THEN @ + 1 ELSE @]
           /\ hpc' = [hpc EXCEPT ![h] =
                        IF t.fault THEN "fault"
                        ELSE IF t.sent THEN "reply_sent" ELSE "reply"]
    /\ UNCHANGED <<fileVars, envVars, spawnVars, printed, extOpen, nextToken, pc, outcome, cfg,
                   info, auth_token, chosen_port, peer, polls, hsrv, mutex,
                   resp, jar, memo, okReq, served, sawLive, doneBefore, replayed>>

\* The handler returns the confirmation; the guard is dropped.
TaskReply(h) ==
    /\ hpc[h] \in {"reply", "reply_sent"}
    /\ Alive(hsrv[h])
    /\ LET q == hsrv[h]
       IN  /\ resp' = Exchange("shutdown", q, None,
                               CanonHeaders(cfg[q], auth_token[q]),
                               ShutdownConfirmation, hpc[h] = "reply_sent")
           /\ mutex' = [mutex EXCEPT ![q] = 0]
    /\ hpc' = [hpc EXCEPT ![h] = "idle"]
    /\ hsrv' = [hsrv EXCEPT ![h] = 0]
    /\ UNCHANGED <<fileVars, envVars, spawnVars, printed, extOpen, nextToken, procVars, jar,
                   memo, ghostVars>>

\* ------------------------------------------------------- stop invocations

\* The server listening on a port (0: none is).
ServerOn(port) ==
    IF \E q \in Procs : Listening(q) /\ chosen_port[q] = port
    THEN CHOOSE q \in Procs : Listening(q) /\ chosen_port[q] = port
    ELSE 0

\* main with --stop: handle_stop_command loads the run record.
StopLoad(p) ==
    /\ CanBegin(p)
    /\ Begin(p)
    /\ info' = [info EXCEPT ![p] = load_run_info]
    /\ IF IsSome(load_run_info)
       THEN /\ pc' = [pc EXCEPT ![p] = "s_probe"]
            /\ UNCHANGED outcome
       ELSE /\ pc' = [pc EXCEPT ![p] = "exited"]
            /\ outcome' = [outcome EXCEPT ![p] = "no_server"]
    /\ UNCHANGED <<fileVars, envVars, spawnVars, printed, extOpen, nextToken, cfg, auth_token,
                   chosen_port, shutdown_tx, shutdown_rx, peer, polls,
                   taskVars, resp, jar, memo, sends, okReq, served, replayed>>

\* if !port_is_open(info.port)
StopProbe(p) ==
    /\ pc[p] = "s_probe"
    /\ pc' = [pc EXCEPT ![p] =
                IF port_is_open(Unwrap(info[p]).port) THEN "s_send" ELSE "s_clear"]
    /\ UNCHANGED <<fileVars, envVars, spawnVars, printed, extOpen, nextToken, outcome, cfg, info,
                   auth_token, chosen_port, shutdown_tx, shutdown_rx, peer,
                   polls, taskVars, resp, jar, memo, ghostVars>>

\* Stale pid.yaml: clear_run_info and return.
\* The mutant of StopClear that removes config.json with the record.
StopClearRemovesConfig(p) ==
    /\ pc[p] = "s_clear"
    /\ clear_run_info
    /\ cfgFile' = None
    /\ pc' = [pc EXCEPT ![p] = "exited"]
    /\ outcome' = [outcome EXCEPT ![p] = "stale_cleaned"]
    /\ UNCHANGED <<envVars, spawnVars, printed, extOpen, nextToken, cfg, info,
                   auth_token, chosen_port, shutdown_tx, shutdown_rx, peer,
                   polls, taskVars, resp, jar, memo, ghostVars>>

StopClear(p) ==
    /\ pc[p] = "s_clear"
    /\ clear_run_info
    /\ pc' = [pc EXCEPT ![p] = "exited"]
    /\ outcome' = [outcome EXCEPT ![p] = "stale_cleaned"]
    /\ UNCHANGED <<cfgFile, envVars, spawnVars, printed, extOpen, nextToken, cfg, info,
                   auth_token, chosen_port, shutdown_tx, shutdown_rx, peer,
                   polls, taskVars, resp, jar, memo, ghostVars>>

\* send_shutdown_request fails: nothing accepts the connection, or a TLS
\* server answers the plaintext request with no HTTP response, or the
\* server's response has neither "200" nor "shutting_down" in it.
StopSendFails(p) ==
    /\ pc[p] = "s_send"
    /\ LET port == Unwrap(info[p]).port
           q == ServerOn(port)
       IN  /\ port \notin extOpen
           /\ \/ q = 0
              \/ /\ q # 0
                 /\ \/ tls_enabled(cfg[q])
                    \/ shutdown_gate(cfg[q], auth_token[q],
                                     StopHeaders(Unwrap(info[p]).auth_token)) # "ok"
           /\ okReq' = IF q # 0 /\ ~tls_enabled(cfg[q])
                       THEN [okReq EXCEPT ![q] =
                               @ \/ RightCredentials(cfg[q], auth_token[q],
                                      StopHeaders(Unwrap(info[p]).auth_token))]
                       ELSE okReq
    /\ pc' = [pc EXCEPT ![p] = "exited"]
    /\ outcome' = [outcome EXCEPT ![p] = "stop_failed"]
    /\ UNCHANGED <<fileVars, envVars, spawnVars, printed, extOpen, nextToken, cfg, info,
                   auth_token, chosen_port, shutdown_tx, shutdown_rx, peer,
                   polls, taskVars, resp, jar, memo, sends, served, sawLive,
                   doneBefore, replayed>>

\* The request reaches shutdown_handler of a plaintext server and passes
\* both gates; the handler takes the sender and sends.
StopSendHandled(p) ==
    /\ pc[p] = "s_send"
    /\ LET port == Unwrap(info[p]).port
           q == ServerOn(port)
           headers == StopHeaders(Unwrap(info[p]).auth_token)
           t == take_and_send(shutdown_tx[q])
       IN  /\ q # 0
           /\ ~tls_enabled(cfg[q])
           /\ shutdown_gate(cfg[q], auth_token[q], headers) = "ok"
           /\ mutex[q] = 0 /\ ~t.fault
           /\ shutdown_tx' = [shutdown_tx EXCEPT ![q] = t.tx]
           /\ shutdown_rx' = [shutdown_rx EXCEPT ![q] = @ \/ t.sent]
           /\ sends' = [sends EXCEPT ![q] = IF t.sent THEN @ + 1 ELSE @]
           /\ okReq' = [okReq EXCEPT ![q] =
                     @ \/ RightCredentials(cfg[q], auth_token[q], headers)]
           /\ peer' = [peer EXCEPT ![p] = q]
    /\ pc' = [pc EXCEPT ![p] = "s_wait"]
    /\ UNCHANGED <<fileVars, envVars, spawnVars, printed, extOpen, nextToken, outcome, cfg, info,
                   auth_token, chosen_port, polls, taskVars, resp, jar, memo,
                   served, sawLive, doneBefore, replayed>>

\* A foreign process holds the recorded port and answers the request with
\* whatever it answers.
StopSendForeign(p) ==
    /\ pc[p] = "s_send"
    /\ Unwrap(info[p]).port \in extOpen
    /\ \E ok \in BOOLEAN :
          IF ok
          THEN /\ pc' = [pc EXCEPT ![p] = "s_poll"]
               /\ UNCHANGED outcome
          ELSE /\ pc' = [pc EXCEPT ![p] = "exited"]
               /\ outcome' = [outcome EXCEPT ![p] = "stop_failed"]
    /\ UNCHANGED <<fileVars, envVars, spawnVars, printed, extOpen, nextToken, cfg, info,
                   auth_token, chosen_port, shutdown_tx, shutdown_rx, peer,
                   polls, taskVars, resp, jar, memo, ghostVars>>

\* read_to_string returns: the confirmation, if the connection task wrote it
\* before the server process went away; otherwise nothing.
StopRecv(p) ==
    /\ pc[p] = "s_wait"
    /\ \E written \in (IF pc[peer[p]] = "exited" THEN BOOLEAN ELSE {TRUE}) :
          IF written
          THEN /\ pc' = [pc EXCEPT ![p] = "s_poll"]
               /\ UNCHANGED outcome
          ELSE /\ pc' = [pc EXCEPT ![p] = "exited"]
               /\ outcome' = [outcome EXCEPT ![p] = "stop_failed"]
    /\ UNCHANGED <<fileVars, envVars, spawnVars, printed, extOpen, nextToken, cfg, info,
                   auth_token, chosen_port, shutdown_tx, shutdown_rx, peer,
                   polls, taskVars, resp, jar, memo, ghostVars>>

\* The mutant of StopPoll that reports success when the polls run out.
StopPollOptimistic(p) ==
    /\ pc[p] = "s_poll"
    /\ IF ~port_is_open(Unwrap(info[p]).port)
       THEN /\ pc' = [pc EXCEPT ![p] = "exited"]
            /\ outcome' = [outcome EXCEPT ![p] = "stop_ok"]
            /\ polls' = [polls EXCEPT ![p] = 0]
       ELSE IF polls[p] + 1 < MaxPolls
       THEN /\ polls' = [polls EXCEPT ![p] = @ + 1]
            /\ UNCHANGED <<pc, outcome>>
       ELSE /\ pc' = [pc EXCEPT ![p] = "exited"]
            /\ outcome' = [outcome EXCEPT ![p] = "stop_ok"]
            /\ polls' = [polls EXCEPT ![p] = 0]
    /\ UNCHANGED <<fileVars, envVars, spawnVars, printed, extOpen, nextToken, cfg, info,
                   auth_token, chosen_port, shutdown_tx, shutdown_rx, peer,
                   taskVars, resp, jar, memo, ghostVars>>

\* The mutant of StopPoll that reports a failure when the polls run out.
StopPollGivesUp(p) ==
    /\ pc[p] = "s_poll"
    /\ IF ~port_is_open(Unwrap(info[p]).port)
       THEN /\ pc' = [pc EXCEPT ![p] = "exited"]
            /\ outcome' = [outcome EXCEPT ![p] = "stop_ok"]
            /\ polls' = [polls EXCEPT ![p] = 0]
       ELSE IF polls[p] + 1 < MaxPolls
       THEN /\ polls' = [polls EXCEPT ![p] = @ + 1]
            /\ UNCHANGED <<pc, outcome>>
       ELSE /\ pc' = [pc EXCEPT ![p] = "exited"]
            /\ outcome' = [outcome EXCEPT ![p] = "stop_failed"]
            /\ polls' = [polls EXCEPT ![p] = 0]
    /\ UNCHANGED <<fileVars, envVars, spawnVars, printed, extOpen, nextToken, cfg, info,
                   auth_token, chosen_port, shutdown_tx, shutdown_rx, peer,
                   taskVars, resp, jar, memo, ghostVars>>

\* One turn of the polling loop, and the message after the last.
StopPoll(p) ==
    /\ pc[p] = "s_poll"
    /\ IF ~port_is_open(Unwrap(info[p]).port)
       THEN /\ pc' = [pc EXCEPT ![p] = "exited"]
            /\ outcome' = [outcome EXCEPT ![p] = "stop_ok"]
            /\ polls' = [polls EXCEPT ![p] = 0]
       ELSE IF polls[p] + 1 < MaxPolls
       THEN /\ polls' = [polls EXCEPT ![p] = @ + 1]
            /\ UNCHANGED <<pc, outcome>>
       ELSE /\ pc' = [pc EXCEPT ![p] = "exited"]
            /\ outcome' = [outcome EXCEPT ![p] = "stop_ambiguous"]
            /\ polls' = [polls EXCEPT ![p] = 0]
    /\ UNCHANGED <<fileVars, envVars, spawnVars, printed, extOpen, nextToken, cfg, info,
                   auth_token, chosen_port, shutdown_tx, shutdown_rx, peer,
                   taskVars, resp, jar, memo, ghostVars>>

\* ------------------------------------------------------ foreign processes

\* The ports foreign processes come and go on.
ExtPorts == {DefaultPort}

ExtBind(x) ==
    /\ x \notin OpenPorts
    /\ extOpen' = extOpen \cup {x}
    /\ UNCHANGED <<fileVars, envVars, spawnVars, printed, nextToken, procVars, taskVars, resp,
                   jar, memo, ghostVars>>

ExtClose(x) ==
    /\ x \in extOpen
    /\ extOpen' = extOpen \ {x}
    /\ UNCHANGED <<fileVars, envVars, spawnVars, printed, nextToken, procVars, taskVars, resp,
                   jar, memo, ghostVars>>

\* ---------------------------------------------------------- specifications

InitProcs ==
    /\ pc = [p \in Procs |-> "new"]
    /\ outcome = [p \in Procs |-> ""]
    /\ cfg = [p \in Procs |-> NoConfig]
    /\ info = [p \in Procs |-> None]
    /\ auth_token = [p \in Procs |-> ""]
    /\ chosen_port = [p \in Procs |-> 0]
    /\ shutdown_tx = [p \in Procs |-> FALSE]
    /\ shutdown_rx = [p \in Procs |-> FALSE]
    /\ peer = [p \in Procs |-> 0]
    /\ polls = [p \in Procs |-> 0]
    /\ sends = [p \in Procs |-> 0]
    /\ okReq = [p \in Procs |-> FALSE]
    /\ served = [p \in Procs |-> FALSE]
    /\ sawLive = [p \in Procs |-> {}]
    /\ doneBefore = [p \in Procs |-> {}]
    /\ daemonized = [p \in Procs |-> FALSE]
    /\ spawned = [p \in Procs |-> 0]
    /\ parent_exit = [p \in Procs |-> None]
    /\ printed = [p \in Procs |-> None]

InitTasks ==
    /\ hpc = [h \in Handlers |-> "idle"]
    /\ hsrv = [h \in Handlers |-> 0]
    /\ mutex = [p \in Procs |-> 0]
    /\ resp = NoResp
    /\ jar = None
    /\ memo = NoResp
    /\ replayed = "no"

\* A machine on which tbl never ran.
Init ==
    /\ runFile = None
    /\ cfgFile = None
    /\ envCfg \in LifeEnvs
    /\ host = LocalHost
    /\ req = NoReq
    /\ extOpen = {}
    /\ nextToken = 0
    /\ InitProcs
    /\ InitTasks

Next ==
    \/ \E p \in Procs :
          \/ Daemonize(p) \/ RunDaemon(p) \/ LoadConfig(p)
          \/ LoadRunInfo(p)
          \/ ProbeRecorded(p) \/ ClearStale(p) \/ PrepareServer(p)
          \/ SaveConfig(p) \/ OpenRunFile(p) \/ SaveRunInfo(p) \/ ListenTlsUnreadable(p)
          \/ ListenBound(p) \/ ListenBindFails(p) \/ ShutdownSelected(p)
          \/ Cleanup(p)
          \/ StopLoad(p) \/ StopProbe(p) \/ StopClear(p) \/ StopSendFails(p)
          \/ StopSendHandled(p) \/ StopSendForeign(p) \/ StopRecv(p)
          \/ StopPoll(p)
    \/ \E q \in Procs :
          \/ \E query \in LifeQueries : BootstrapExchange(q, query, FALSE)
          \/ \E headers \in LifeHeaders(cfg[q]) :
                \/ PingExchange(q, headers, FALSE)
                \/ ShutdownExchange(q, headers, FALSE)
    \/ \E x \in ExtPorts : ExtBind(x) \/ ExtClose(x)

Spec == Init /\ [][Next]_vars

\* One server, started alone on a machine on which tbl never ran, now
\* listening: the state main is in when it reaches select!.
InitServing(envs) ==
    /\ envCfg \in envs
    /\ host = LocalHost
    /\ LET c == [MergeConfig(NoConfig, envCfg, NoConfig)
                    EXCEPT !.addr = Some(DefaultPort)]
       IN  /\ cfg = [p \in Procs |-> IF p = 1 THEN c ELSE NoConfig]
           /\ cfgFile = Some(c)
           /\ runFile = Some(RunInfo(1, DefaultPort, generate_token(0),
                                     tls_enabled(c)))
    /\ extOpen = {}
    /\ nextToken = 1
    /\ pc = [p \in Procs |-> IF p = 1 THEN "serving" ELSE "new"]
    /\ outcome = [p \in Procs |-> ""]
    /\ info = [p \in Procs |-> None]
    /\ auth_token = [p \in Procs |-> IF p = 1 THEN generate_token(0) ELSE ""]
    /\ chosen_port = [p \in Procs |-> IF p = 1 THEN DefaultPort ELSE 0]
    /\ shutdown_tx = [p \in Procs |-> p = 1]
    /\ shutdown_rx = [p \in Procs |-> FALSE]
    /\ peer = [p \in Procs |-> 0]
    /\ polls = [p \in Procs |-> 0]
    /\ sends = [p \in Procs |-> 0]
    /\ okReq = [p \in Procs |-> FALSE]
    /\ served = [p \in Procs |-> p = 1]
    /\ sawLive = [p \in Procs |-> {}]
    /\ doneBefore = [p \in Procs |-> {}]
    /\ daemonized = [p \in Procs |-> p = 1]
    /\ spawned = [p \in Procs |-> IF p = 1 THEN 1 ELSE 0]
    /\ parent_exit = [p \in Procs |-> IF p = 1 THEN Some(0) ELSE None]
    /\ printed = [p \in Procs |-> None]
    /\ InitTasks

\* The browser sends the cookie a bootstrap page stored, and nothing else.
BrowserPing(q) ==
    /\ IsSome(jar)
    /\ PingExchange(q, Headers(Cookie(<<Unwrap(jar)>>), NoAuthz), TRUE)

\* The last exchange is kept for a later comparison.
Remember ==
    /\ resp # NoResp
    /\ memo' = resp
    /\ UNCHANGED <<fileVars, envVars, spawnVars, printed, extOpen, nextToken, procVars, taskVars,
                   resp, jar, ghostVars>>

\* The authorization model: one server, and a client that sends one request
\* of ServeQueries or ServeHeaders, to any endpoint, any number of times.
InitAuth ==
    /\ InitServing(ServeEnvs)
    /\ req \in {[query |-> x, headers |-> NoReq.headers] : x \in ServeQueries}
              \cup {[query |-> None, headers |-> x] : x \in ServeHeaders}

NextAuth ==
    \/ \E q \in Procs :
          \/ BootstrapExchange(q, req.query, TRUE)
          \/ PingExchange(q, req.headers, TRUE)
          \/ ShutdownExchange(q, req.headers, TRUE)
          \/ BrowserPing(q)
    \/ \E p \in Procs : ShutdownSelected(p) \/ Cleanup(p)

SpecAuth == InitAuth /\ [][NextAuth]_vars

\* The server model: one server, its connection tasks and its main task.
InitServe == InitServing(LifeEnvs) /\ req = NoReq

NextServe ==
    \/ \E h \in Handlers :
          \/ \E q \in Procs : TaskAccept(h, q)
          \/ TaskLock(h) \/ TaskTake(h) \/ TaskReply(h)
    \/ \E q \in Procs :
          \/ \E query \in LifeQueries : BootstrapExchange(q, query, TRUE)
          \/ \E headers \in LifeHeaders(cfg[q]) :
                \/ PingExchange(q, headers, TRUE)
                \/ ShutdownExchange(q, headers, TRUE)
          \/ BrowserPing(q)
    \/ Remember
    \/ \E p \in Procs : ShutdownSelected(p) \/ Cleanup(p)

SpecServe == InitServe /\ [][NextServe]_vars

\* The base ports of the port model: the default, and one next to the last.
PortBases == {DefaultPort, MaxPort - MaxAttempts + 1, MaxPort - 1, MaxPort}

\* The ports from base_port on, k of them.
PortRun(base_port, k) == {x \in base_port..(base_port + k - 1) : x <= MaxPort}

\* What may be occupied when a port is chosen: a run of ports from the base
\* port on, and possibly the port after the first free one.
Occupied(base_port) ==
    {PortRun(base_port, k) : k \in 0..MaxOccupied}
    \cup {PortRun(base_port, k) \cup ({base_port + k + 1} \cap 1..MaxPort) :
             k \in 0..MaxOccupied}

\* The port model: one start invocation that found no record, about to
\* choose its port, on a machine whose other ports are held by foreign
\* processes that stay.
InitPort ==
    /\ runFile = None
    /\ cfgFile = None
    /\ envCfg \in {e \in LifeEnvs : e.basic_user = None}
    /\ host \in Hosts
    /\ req = NoReq
    /\ nextToken = 0
    /\ \E base_port \in PortBases :
          /\ extOpen \in Occupied(base_port)
          /\ cfg = [p \in Procs |->
                      IF p = 1
                      THEN [MergeConfig(NoConfig, envCfg, NoConfig)
                               EXCEPT !.addr = Some(base_port)]
                      ELSE NoConfig]
    /\ pc = [p \in Procs |-> IF p = 1 THEN "start" ELSE "new"]
    /\ outcome = [p \in Procs |-> ""]
    /\ info = [p \in Procs |-> None]
    /\ auth_token = [p \in Procs |-> ""]
    /\ chosen_port = [p \in Procs |-> 0]
    /\ shutdown_tx = [p \in Procs |-> FALSE]
    /\ shutdown_rx = [p \in Procs |-> FALSE]
    /\ peer = [p \in Procs |-> 0]
    /\ polls = [p \in Procs |-> 0]
    /\ sends = [p \in Procs |-> 0]
    /\ okReq = [p \in Procs |-> FALSE]
    /\ served = [p \in Procs |-> FALSE]
    /\ sawLive = [p \in Procs |-> {}]
    /\ doneBefore = [p \in Procs |-> {}]
    /\ daemonized = [p \in Procs |-> p = 1]
    /\ spawned = [p \in Procs |-> IF p = 1 THEN 1 ELSE 0]
    /\ parent_exit = [p \in Procs |-> IF p = 1 THEN Some(0) ELSE None]
    /\ printed = [p \in Procs |-> None]
    /\ InitTasks

NextPort ==
    \E p \in Procs :
        \/ PrepareServer(p) \/ SaveConfig(p) \/ OpenRunFile(p) \/ SaveRunInfo(p)
        \/ ListenTlsUnreadable(p) \/ ListenBound(p) \/ ListenBindFails(p)
        \/ Cleanup(p)

SpecPort == InitPort /\ [][NextPort]_vars

\* The lifecycle model with the scheduling the runtime gives the main task:
\* once the value is in the channel, select! completes and main runs on to
\* its end.
FairSpec ==
    /\ Spec
    /\ \A p \in Procs : WF_vars(ShutdownSelected(p)) /\ WF_vars(Cleanup(p))

\* What one tier (flags, environment, config file) may hold: each field
\* absent or present, the present values telling the tiers apart.
TierConfigs(k, text) ==
    {[addr |-> a, tls_cert |-> c, tls_key |-> y, basic_user |-> u,
      basic_pass |-> w] :
        a \in {None, Some(DefaultPort + k)},
        c \in {None, Some(text)}, y \in {None, Some(text)},
        u \in {None, Some(<<text>>)}, w \in {None, Some(<<text>>)}}

\* The merge model: one daemon with its flags parsed, about to merge them
\* with the environment and the configuration file.
InitMerge ==
    /\ runFile = None
    /\ cfgFile \in {None} \cup {Some(f) : f \in TierConfigs(3, "file")}
    /\ envCfg \in TierConfigs(2, "env")
    /\ host = LocalHost
    /\ req = NoReq
    /\ extOpen = {}
    /\ nextToken = 0
    /\ \E cli \in TierConfigs(1, "flag") :
          cfg = [p \in Procs |-> IF p = 1 THEN cli ELSE NoConfig]
    /\ pc = [p \in Procs |-> IF p = 1 THEN "config" ELSE "new"]
    /\ outcome = [p \in Procs |-> ""]
    /\ info = [p \in Procs |-> None]
    /\ auth_token = [p \in Procs |-> ""]
    /\ chosen_port = [p \in Procs |-> 0]
    /\ shutdown_tx = [p \in Procs |-> FALSE]
    /\ shutdown_rx = [p \in Procs |-> FALSE]
    /\ peer = [p \in Procs |-> 0]
    /\ polls = [p \in Procs |-> 0]
    /\ sends = [p \in Procs |-> 0]
    /\ okReq = [p \in Procs |-> FALSE]
    /\ served = [p \in Procs |-> FALSE]
    /\ sawLive = [p \in Procs |-> {}]
    /\ doneBefore = [p \in Procs |-> {}]
    /\ daemonized = [p \in Procs |-> p = 1]
    /\ spawned = [p \in Procs |-> IF p = 1 THEN 1 ELSE 0]
    /\ parent_exit = [p \in Procs |-> IF p = 1 THEN Some(0) ELSE None]
    /\ printed = [p \in Procs |-> None]
    /\ InitTasks

NextMerge == \E p \in Procs : LoadConfig(p)

SpecMerge == InitMerge /\ [][NextMerge]_vars

\* The lifecycle model on a machine where pid.yaml exists and does not
\* deserialize: an earlier save was cut short after the truncation, or the
\* file was edited.
InitMalformed ==
    /\ runFile = Some(Garbled)
    /\ cfgFile = None
    /\ envCfg \in LifeEnvs
    /\ host = LocalHost
    /\ req = NoReq
    /\ extOpen = {}
    /\ nextToken = 0
    /\ InitProcs
    /\ InitTasks

SpecMalformed == InitMalformed /\ [][Next]_vars

\* The lifecycle model with the scheduling a stop invocation has: it is a
\* process of its own that runs on; connect, read and write have timeouts.
FairStop ==
    /\ Spec
    /\ \A p \in Procs :
          /\ WF_vars(StopProbe(p)) /\ WF_vars(StopClear(p))
          /\ WF_vars(StopSendFails(p) \/ StopSendHandled(p)
                                      \/ StopSendForeign(p))
          /\ WF_vars(StopRecv(p)) /\ WF_vars(StopPoll(p))

\* ------------------------------------------------------------------ claims

StartPcs == {"config", "load", "probe", "clear", "start", "savecfg",
             "saverun", "writerun", "listen", "serving", "cleanup"}

\* p is, or was, the daemon of a start invocation, past the top of main.
IsStart(p) ==
    \/ pc[p] \in StartPcs
    \/ pc[p] = "exited"
       /\ outcome[p] \in {"attached", "addr_invalid", "tls_failed",
                          "bind_failed", "server_error", "stopped"}

\* The run record on disk is the one q wrote.
RecordOf(q) == IsSome(runFile) /\ Unwrap(runFile).pid = q

\* No invocation other than p and q ran since q began.
OnlyTwo(q, p) ==
    \A r \in Procs \ {p, q} : pc[r] = "new" \/ r \in doneBefore[q]

C2_FatalStartupWritesNothing ==
    \A p \in Procs :
        (pc[p] = "exited" /\ ExitCode(p) = 1)
        => /\ ~RecordOf(p)
           /\ cfgFile = None \/ \E q \in Procs \ {p} : served[q]

C2_Witness ==
    \E p \in Procs :
        /\ pc[p] = "exited" /\ ExitCode(p) = 1
        /\ RecordOf(p) /\ IsSome(cfgFile)
        /\ \A q \in Procs \ {p} : pc[q] = "new"

\* No invocation other than q has run since q began.
Undisturbed(q) == \A r \in Procs \ {q} : pc[r] = "new" \/ r \in doneBefore[q]

\* The state a server is in for good once it has shut down: not listening,
\* its record gone, and a read of the run record returning none unless a later
\* invocation wrote one.
StoppedAndCleared(q) ==
    /\ pc[q] = "exited"
    /\ ~RecordOf(q)
    /\ Undisturbed(q) => load_run_info = None

\* C3: once the value is in a live server's shutdown channel (an authorized
\* shutdown request was handled), the server eventually stops listening and
\* exits, and from then on the run record is never its own again: a read
\* returns none until a later invocation writes a record.
C3_ShutdownClearsRecord ==
    \A q \in Procs : shutdown_rx[q] ~> [](StoppedAndCleared(q))

C3_Witness ==
    \E q \in Procs :
        /\ sends[q] = 1 /\ okReq[q]
        /\ outcome[q] = "stopped" /\ load_run_info = None

\* C4: the value is sent into a server's shutdown channel at most once, no
\* handler faults on finding the sender gone, a handler that found it gone
\* answers after the one send, and every shutdown request with the right
\* credentials is answered 200, whether or not it was the one that sent.
C4_SignalSentOnce ==
    /\ \A q \in Procs : sends[q] <= 1 /\ (shutdown_rx[q] => ~shutdown_tx[q])
    /\ \A h \in Handlers :
          /\ hpc[h] # "fault"
          /\ hpc[h] = "reply" => sends[hsrv[h]] = 1
    /\ resp.ep = "shutdown"
          => /\ resp.response.status = 200 => sends[resp.srv] = 1
             /\ resp.headers = CanonHeaders(cfg[resp.srv], auth_token[resp.srv])
                   => resp.response = ShutdownConfirmation

C4_Witness ==
    \E h \in Handlers :
        /\ hpc[h] = "reply" /\ sends[hsrv[h]] = 1
        /\ resp.ep = "shutdown" /\ resp.sent

\* The sender of q's channel was taken, or the value sent, or q stopped
\* listening, or q's record is gone.
ShutDown(q) ==
    /\ served[q]
    /\ ~shutdown_tx[q] \/ shutdown_rx[q] \/ ~Listening(q) \/ ~RecordOf(q)

\* C5: a server's shutdown channel is consumed, its listener closed and its
\* record cleared only after a shutdown request that carried the tbl_token
\* cookie with the server's secret and, when user name and password are
\* configured, their Basic credentials; no other request to any endpoint
\* does any of it.
C5_ShutdownOnlyIfAuthorized ==
    \A q \in Procs : ShutDown(q) => okReq[q]

C5_Witness ==
    /\ resp.ep = "shutdown" /\ resp.response.status = 401
    /\ resp.headers.authz # NoAuthz
    /\ ~okReq[resp.srv] /\ Listening(resp.srv) /\ shutdown_tx[resp.srv]

\* What the three kinds of bootstrap request are answered.
BootstrapOutcomes ==
    resp.ep = "bootstrap"
    => LET secret == auth_token[resp.srv]
           r == resp.response
       IN  /\ ~IsSome(resp.query) => r.status = 400 /\ r.set_cookie = None
           /\ IsSome(resp.query) /\ Unwrap(resp.query) # secret
                 => r.status = 403 /\ r.set_cookie = None
           /\ resp.query = Some(secret)
                 => /\ r.status = 200
                    /\ r.set_cookie = Some(<<"tbl_token", secret>>)

\* A step that answered a bootstrap request.
BootstrapStep ==
    /\ resp'.ep = "bootstrap"
    /\ resp' # resp \/ jar' # jar \/ replayed' # replayed

\* C6: a bootstrap request without a token is answered 400, one with a token
\* other than the secret 403, one with the secret a page that sets the cookie
\* tbl_token to the secret; answering it changes nothing of the server, its
\* tasks or the files.
C6_BootstrapOutcomes ==
    /\ [](BootstrapOutcomes)
    /\ [][BootstrapStep => UNCHANGED <<procVars, fileVars, taskVars>>]_vars

C6_Witness ==
    /\ resp.ep = "bootstrap" /\ resp.response.status = 200
    /\ jar = Some(<<"tbl_token", auth_token[resp.srv]>>)

\* User name and password are both configured.
BasicConfigured(config) ==
    IsSome(config.basic_user) /\ IsSome(config.basic_pass)

\* A Cookie part that is a tbl_token cookie with a value.
IsTblPart(part) ==
    Len(part) >= 2 /\ part[1] \in {"tbl_token", " tbl_token"}

\* The first tbl_token cookie of the Cookie header has this secret as value.
FirstTblTokenIs(headers, token) ==
    /\ headers.cookie.kind = "text"
    /\ \E i \in 1..Len(headers.cookie.parts) :
          /\ headers.cookie.parts[i] \in
                {<<"tbl_token", token>>, <<" tbl_token", token>>}
          /\ \A j \in 1..(i - 1) : ~IsTblPart(headers.cookie.parts[j])

Privileged == resp.ep \in {"ping", "shutdown"}

RightBasic(config, headers) ==
    headers.authz = Basic(Unwrap(config.basic_user), Unwrap(config.basic_pass))

HasColon(text) == \E i \in 1..Len(text) : text[i] = ":"

\* C8: with user name and password configured, a privileged request is
\* answered 200 exactly if it carries both the Basic credentials of the
\* configured user name and password and the right cookie, and 401 with
\* WWW-Authenticate if both are wrong.
C8_BothGatesDecide ==
    (Privileged /\ BasicConfigured(cfg[resp.srv]))
    => LET config == cfg[resp.srv]
           cookie == FirstTblTokenIs(resp.headers, auth_token[resp.srv])
           r == resp.response
       IN  /\ r.status = 200 <=> (RightBasic(config, resp.headers) /\ cookie)
           /\ (~RightBasic(config, resp.headers) /\ ~cookie)
                 => r.status = 401 /\ r.www_authenticate

C8_Witness ==
    /\ Privileged /\ BasicConfigured(cfg[resp.srv])
    /\ HasColon(Unwrap(cfg[resp.srv].basic_user))
    /\ RightBasic(cfg[resp.srv], resp.headers)
    /\ FirstTblTokenIs(resp.headers, auth_token[resp.srv])
    /\ resp.response.status = 401 /\ resp.response.www_authenticate

\* C9: no two runs have the same secret, and a request that presents the
\* secret of a run that is over is never answered 200 by a live server.
C9_OldSecretRejected ==
    /\ replayed # "accepted"
    /\ \A q \in Procs : \A r \in Procs \ {q} :
          auth_token[q] # "" => auth_token[q] # auth_token[r]

C9_Witness ==
    /\ replayed = "rejected"
    /\ \E q \in Procs : \E r \in Procs \ {q} :
          /\ served[r] /\ outcome[r] = "stopped"
          /\ r \in doneBefore[q] /\ Listening(q)

\* Two exchanges are the same request to the same server.
SameRequest(a, b) ==
    /\ a.ep = b.ep /\ a.srv = b.srv
    /\ a.query = b.query /\ a.headers = b.headers

\* C10: a request is answered by what it carries and by the server's secret
\* and configuration alone: an exchange and a later exchange of the same
\* request with the same server have the same response, whatever requests
\* the server answered before and between them.
C10_HistoryIndependent ==
    SameRequest(memo, resp) => memo.response = resp.response

C10_Witness ==
    /\ memo.ep = "ping" /\ SameRequest(memo, resp)
    /\ resp.response.status = 200
    /\ IsSome(jar) /\ sends[resp.srv] = 1

\* The port the record p loaded names accepts connections.
RecordedPortOpen(p) == port_is_open(Unwrap(info[p]).port)

\* Where p is once it uses the record it loaded: attached to the instance
\* the record names, or sending to its port, or past that.
UsesRecord(p) ==
    \/ pc[p] = "exited" /\ outcome[p] = "attached"
    \/ pc[p] \in {"s_send", "s_wait", "s_poll"}
    \/ pc[p] = "exited"
       /\ outcome[p] \in {"stop_failed", "stop_ok", "stop_ambiguous"}

\* C11: an invocation comes to use a record it loaded (attach to the instance
\* it names, send the shutdown request to its port) only by the step that
\* probes the recorded port and finds it open; the probing step that finds it
\* closed leads to the clearing of the record and nowhere else, and the next
\* step of the invocation removes the record.
C11_ProbeBeforeUse ==
    [][\A p \in Procs :
          /\ (UsesRecord(p)' /\ ~UsesRecord(p))
                => pc[p] \in {"probe", "s_probe"} /\ RecordedPortOpen(p)
          /\ (pc[p] \in {"probe", "s_probe"} /\ pc'[p] # pc[p]
                                             /\ ~RecordedPortOpen(p))
                => pc'[p] \in {"clear", "s_clear"}
          /\ (pc[p] \in {"clear", "s_clear"} /\ pc'[p] # pc[p])
                => runFile' = None /\ ~UsesRecord(p)'
                   /\ pc'[p] = (IF pc[p] = "clear" THEN "start" ELSE "exited")
      ]_vars

C11_Witness ==
    \E p \in Procs : \E q \in Procs \ {p} :
        /\ IsSome(info[p]) /\ Unwrap(info[p]).pid = q
        /\ pc[p] = "exited" /\ outcome[p] = "stale_cleaned"
        /\ runFile = None

\* C12: a start invocation that found a stale record is, once it has dealt
\* with it, where one that found no record is (no record on disk, about to
\* issue its secret), and when it serves the record on disk is its own fresh
\* one; a stop invocation that found a stale record ends as one that found
\* none: exit code 0, no request sent, no record left.  (While no other
\* invocation has run since it began.)
C12_StaleAsNoRecord ==
    \A p \in Procs :
        Undisturbed(p)
        => /\ pc[p] = "start" => runFile = None /\ auth_token[p] = ""
           /\ pc[p] = "serving"
                 => runFile = Some(RunInfo(p, chosen_port[p], auth_token[p],
                                           tls_enabled(cfg[p])))
           /\ (pc[p] = "exited"
               /\ outcome[p] \in {"no_server", "stale_cleaned"})
                 => runFile = None /\ ExitCode(p) = 0 /\ peer[p] = 0

C12_Witness ==
    \E p \in Procs :
        /\ Undisturbed(p) /\ IsSome(info[p])
        /\ pc[p] = "serving" /\ RecordOf(p)

\* The invocation chose its port and has not yet overwritten the configured
\* base port with it.
PortChosen(p) ==
    /\ chosen_port[p] # 0
    /\ pc[p] = "savecfg" \/ outcome[p] = "addr_invalid"

\* The ports of the 100 from the base port on that nothing listens on.
FreePorts(base_port) ==
    {x \in base_port..(base_port + MaxAttempts - 1) :
        x <= MaxPort /\ x \notin OpenPorts}

Smallest(S) == CHOOSE x \in S : \A y \in S : x <= y

\* C13 as stated: for any host, if one of the 100 ports from the base port on
\* has nothing listening, find_available_port returns the smallest such port.
C13_SmallestFreePort ==
    \A p \in Procs :
        (PortChosen(p) /\ FreePorts(Unwrap(cfg[p].addr)) # {})
        => chosen_port[p] = Smallest(FreePorts(Unwrap(cfg[p].addr)))

\* C13: for a host that is an IP address literal, if one of the 100 ports from
\* the base port on has nothing listening, find_available_port returns the
\* smallest such port; for a host that is a name it probes nothing and
\* returns the base port.
C13_SmallestFreePortOfIpHost ==
    \A p \in Procs :
        PortChosen(p)
        => LET base_port == Unwrap(cfg[p].addr)
           IN  /\ (ParsesAsSocketAddr(host) /\ FreePorts(base_port) # {})
                     => chosen_port[p] = Smallest(FreePorts(base_port))
               /\ ~ParsesAsSocketAddr(host) => chosen_port[p] = base_port

C13_Witness ==
    /\ PortChosen(1) /\ ParsesAsSocketAddr(host)
    /\ Unwrap(cfg[1].addr) = DefaultPort
    /\ extOpen = DefaultPort..(DefaultPort + 2)
    /\ chosen_port[1] = DefaultPort + 3

Reports(p, o) == outcome'[p] = o /\ outcome[p] # o

\* C15: a stop invocation reports "stopped successfully" only in the step in
\* which, having sent its request and read the confirmation, it probes the
\* recorded port and finds it closed.
C15_SuccessOnlyAfterClosedProbe ==
    [][\A p \in Procs :
          Reports(p, "stop_ok") => pc[p] = "s_poll" /\ ~RecordedPortOpen(p)
      ]_vars

C15_Witness ==
    \E p \in Procs : \E q \in Procs \ {p} :
        /\ pc[p] = "exited" /\ outcome[p] = "stop_ok"
        /\ peer[p] = q /\ pc[q] \in {"cleanup", "exited"}

StopOutcomes == {"stop_ok", "stop_ambiguous", "stop_failed"}

\* C16: a stop invocation that sends its request ends, and ends in one of
\* three ways: success, reported by a poll that found the port closed;
\* ambiguous, reported by the 50th poll when it, as the 49 before it, found
\* the port open; failure, reported before any poll, when the request could
\* not be sent or no confirmation was read.  It never polls more than 50
\* times.
C16_StopEndsOneOfThreeWays ==
    /\ [](\A p \in Procs : polls[p] < MaxPolls)
    /\ [][\A p \in Procs :
            /\ Reports(p, "stop_ok")
                  => pc[p] = "s_poll" /\ ~RecordedPortOpen(p)
            /\ Reports(p, "stop_ambiguous")
                  => /\ pc[p] = "s_poll" /\ RecordedPortOpen(p)
                     /\ polls[p] = MaxPolls - 1
            /\ Reports(p, "stop_failed")
                  => pc[p] \in {"s_send", "s_wait"} /\ polls[p] = 0
         ]_vars
    /\ \A p \in Procs :
          (pc[p] \in {"s_send", "s_wait", "s_poll"})
             ~> (pc[p] = "exited" /\ outcome[p] \in StopOutcomes)

C16_Witness ==
    \E p \in Procs : \E q \in Procs \ {p} :
        /\ pc[p] = "exited" /\ outcome[p] = "stop_ambiguous"
        /\ peer[p] = q /\ Listening(q)

\* The process of p that ran the daemonize block ends in this step.
ParentExits(p) == parent_exit[p] = None /\ parent_exit'[p] # None

\* C18, as stated: every process that ran the daemonize block spawned exactly
\* one child and exited 0.
C18_ParentSpawnsOneAndExitsZero ==
    \A p \in Procs :
        IsSome(parent_exit[p]) => spawned[p] = 1 /\ parent_exit[p] = Some(0)

\* C18, amended: a process without TBL_DAEMONIZED either spawns exactly one
\* child, marked with TBL_DAEMONIZED, and exits 0, or fails to spawn, leaves
\* no child and exits 1; in both cases it neither loads nor writes the run
\* record or the configuration and binds nothing, and its exit code is final
\* whatever the child does.  A process with TBL_DAEMONIZED never spawns: no
\* invocation has more than one child.
C18_SpawnsOneMarkedChildOrFails ==
    /\ [](\A p \in Procs :
            /\ spawned[p] <= 1
            /\ pc[p] = "main" => daemonized[p]
            /\ daemonized[p] => spawned[p] = 1 /\ parent_exit[p] = Some(0))
    /\ [][\A p \in Procs :
            /\ ParentExits(p)
                  => /\ ~daemonized[p] /\ spawned[p] = 0
                     /\ \/ /\ parent_exit'[p] = Some(0)
                           /\ spawned'[p] = 1 /\ daemonized'[p]
                           /\ pc'[p] = "main"
                        \/ /\ parent_exit'[p] = Some(1)
                           /\ spawned'[p] = 0 /\ ~daemonized'[p]
                           /\ pc'[p] = "exited"
                     /\ UNCHANGED <<fileVars, info, cfg, served, chosen_port>>
            /\ IsSome(parent_exit[p]) => parent_exit'[p] = parent_exit[p]
            /\ daemonized[p] => spawned'[p] = spawned[p] /\ daemonized'[p]
         ]_vars

\* The parent has exited 0 and its child ended in a fatal startup error.
C18_Witness ==
    \E p \in Procs :
        /\ parent_exit[p] = Some(0) /\ spawned[p] = 1 /\ daemonized[p]
        /\ pc[p] = "exited" /\ ExitCode(p) = 1

StopPcs == {"s_probe", "s_clear", "s_send", "s_wait", "s_poll"}

\* p is, or was, an invocation with --stop.
IsStop(p) ==
    \/ pc[p] \in StopPcs
    \/ pc[p] = "exited"
       /\ outcome[p] \in {"no_server", "stale_cleaned"} \cup StopOutcomes

\* A step of the stop invocation p.
StopStep(p) ==
    /\ IsStop(p)'
    /\ pc'[p] # pc[p] \/ polls'[p] # polls[p]

\* C17: a stop invocation is never daemonized and spawns nothing, binds no
\* listener, holds no secret and no chosen port, and is not the writer of the
\* run record; a step of it draws no secret and changes neither config.json
\* nor (except to remove it, after its probe of the recorded port failed)
\* pid.yaml.
C17_StopOnlyClears ==
    /\ [](\A p \in Procs :
            IsStop(p)
            => /\ ~daemonized[p] /\ spawned[p] = 0 /\ parent_exit[p] = None
               /\ ~served[p] /\ ~Listening(p) /\ ~shutdown_tx[p]
               /\ auth_token[p] = "" /\ chosen_port[p] = 0
               /\ ~RecordOf(p))
    /\ [][\A p \in Procs :
            StopStep(p)
            => /\ UNCHANGED <<cfgFile, nextToken, spawnVars, printed, served,
                              auth_token, chosen_port, extOpen>>
               /\ \/ UNCHANGED runFile
                  \/ /\ pc[p] = "s_clear" /\ ~IsSome(runFile')
                     /\ outcome'[p] = "stale_cleaned"
         ]_vars

\* A stop invocation removed the record a failed startup left behind, while
\* the configuration that startup wrote is still there.
C17_Witness ==
    \E p \in Procs :
        /\ pc[p] = "exited" /\ outcome[p] = "stale_cleaned"
        /\ runFile = None /\ IsSome(cfgFile)

\* p and q are daemons of start invocations that both began when no
\* instance was listening.
ConcurrentStarts(p, q) ==
    /\ p # q
    /\ IsStart(p) /\ IsStart(q)
    /\ sawLive[p] = {} /\ sawLive[q] = {}

\* C19: of two start invocations that began with no live instance, at most
\* one is ever serving.
C19_OneInstanceServes ==
    \A p \in Procs : \A q \in Procs :
        ConcurrentStarts(p, q) => ~(Listening(p) /\ Listening(q))

\* Two such invocations are serving at once, on neighbouring ports, and the
\* run record names only one of them.
C19_Witness ==
    \E p \in Procs : \E q \in Procs :
        /\ ConcurrentStarts(p, q)
        /\ Listening(p) /\ Listening(q)
        /\ chosen_port[p] = DefaultPort /\ chosen_port[q] = DefaultPort + 1
        /\ RecordOf(q)

\* C20: when the run record exists and its port accepts connections, the
\* listener on that port is the instance the record names, with the
\* record's secret.
C20_RecordNamesListener ==
    (IsSome(runFile) /\ port_is_open(Unwrap(runFile).port))
    => \E q \in Procs :
          /\ Listening(q) /\ chosen_port[q] = Unwrap(runFile).port
          /\ Unwrap(runFile).pid = q
          /\ Unwrap(runFile).auth_token = auth_token[q]

\* With no foreign process involved: the record names an invocation whose
\* bind failed, and its port is served by another instance, whose secret is
\* not the recorded one.
C20_Witness ==
    \E p \in Procs : \E q \in Procs \ {p} :
        /\ extOpen = {}
        /\ RecordOf(q) /\ pc[q] = "exited" /\ outcome[q] = "bind_failed"
        /\ Listening(p) /\ chosen_port[p] = Unwrap(runFile).port
        /\ auth_token[p] # Unwrap(runFile).auth_token

\* p reads pid.yaml in this step: load_run_info in main or in
\* handle_stop_command.
LoadStep(p) ==
    \/ pc[p] = "load" /\ pc'[p] # "load"
    \/ pc[p] = "new" /\ IsStop(p)'

\* C21: no load reads pid.yaml while a save has truncated it and not yet
\* written it: what a load reads is absent or a complete record.
C21_LoadReadsWholeRecord ==
    [][\A p \in Procs : LoadStep(p) => runFile # Some(Garbled)]_vars

\* An invocation is about to load while another is between the two halves
\* of fs::write.
C21_Witness ==
    \E p \in Procs : \E q \in Procs \ {p} :
        /\ pc[p] = "load" /\ pc[q] = "writerun"
        /\ runFile = Some(Garbled) /\ load_run_info = None

\* pid.yaml is missing, or there and not the YAML of a RunInfo.
NoRecordReadable == runFile = None \/ runFile = Some(Garbled)

\* C22: a load of a missing or malformed pid.yaml returns None and fails
\* nothing: a start invocation goes on to the fresh start and a stop
\* invocation reports that no server runs and exits 0, the files untouched,
\* whichever of the two the file was; an invocation that loaded None never
\* probes, attaches, clears or sends.
C22_MalformedLoadsAsNone ==
    /\ [](\A p \in Procs :
            (info[p] = None)
            => /\ ~UsesRecord(p)
               /\ pc[p] \notin {"probe", "clear", "s_probe", "s_clear"})
    /\ [][\A p \in Procs :
            (LoadStep(p) /\ NoRecordReadable)
            => /\ info'[p] = None
               /\ UNCHANGED <<fileVars, nextToken, served>>
               /\ IF pc[p] = "load"
                  THEN pc'[p] = "start" /\ outcome'[p] = ""
                  ELSE /\ pc'[p] = "exited" /\ outcome'[p] = "no_server"
                       /\ ExitCode(p)' = 0
         ]_vars

\* With a malformed pid.yaml on disk from the beginning, a stop invocation
\* has reported that no server runs, and a start invocation is serving under
\* a record of its own.
C22_Witness ==
    \E p \in Procs : \E q \in Procs \ {p} :
        /\ pc[p] = "exited" /\ outcome[p] = "no_server" /\ doneBefore[p] = {}
        /\ sawLive[p] = {} /\ p < q
        /\ Listening(q) /\ RecordOf(q) /\ info[q] = None

\* The server process q ends in this step: main returns and the runtime is
\* dropped.
ServerExits(q) == pc[q] = "cleanup" /\ pc'[q] = "exited"

\* C23: when a server process ends, no request it accepted is still in its
\* handler: each has had its response, the confirmation of the request that
\* sent the signal included.
C23_InFlightCompleteBeforeExit ==
    [][\A q \in Procs :
          ServerExits(q) => \A h \in Handlers : hsrv[h] # q
      ]_vars

\* The server is about to clear the record and end; the task that sent the
\* signal has not returned its confirmation, and another request waits for
\* the lock.
C23_Witness ==
    \E q \in Procs : \E h \in Handlers : \E g \in Handlers \ {h} :
        /\ pc[q] = "cleanup" /\ sends[q] = 1
        /\ hsrv[h] = q /\ hpc[h] = "reply_sent" /\ mutex[q] = h
        /\ hsrv[g] = q /\ hpc[g] = "lock"

\* The record p loaded is the intact record of the live instance q.
LiveIntact(p, q) ==
    /\ Listening(q)
    /\ runFile = Some(RunInfo(q, chosen_port[q], auth_token[q],
                              tls_enabled(cfg[q])))
    /\ info[p] = runFile

\* C24: the shutdown request of a stop invocation that holds the intact
\* record of a live instance does not fail: it reaches the shutdown endpoint
\* and is authorized by the token, with and without TLS.
C24_StopReachesLiveInstance ==
    [][\A p \in Procs : \A q \in Procs :
          (pc[p] = "s_send" /\ LiveIntact(p, q))
          => ~Reports(p, "stop_failed")
      ]_vars

\* The stop invocation has given up; the TLS instance whose intact record it
\* held is still serving, no signal sent, and no basic auth is configured.
C24_Witness ==
    \E p \in Procs : \E q \in Procs :
        /\ pc[p] = "exited" /\ outcome[p] = "stop_failed"
        /\ LiveIntact(p, q) /\ tls_enabled(cfg[q])
        /\ cfg[q].basic_user = None
        /\ sends[q] = 0 /\ extOpen = {}

Fields == {"addr", "tls_cert", "tls_key", "basic_user", "basic_pass"}

\* The first present value of a sequence of optional values, None if none is.
RECURSIVE FirstPresent(_)
FirstPresent(tiers) ==
    IF tiers = <<>> THEN None
    ELSE IF IsSome(Head(tiers)) THEN Head(tiers)
    ELSE FirstPresent(Tail(tiers))

\* The tiers of a field, highest first, for invocation p about to merge:
\* flag, environment, file, and for the address the built-in default.
Tiers(p, f) ==
    <<cfg[p][f], envCfg[f],
      IF IsSome(cfgFile) THEN Unwrap(cfgFile)[f] ELSE None>>
    \o (IF f = "addr" THEN <<Some(DefaultPort)>> ELSE <<>>)

\* p merges its configuration in this step.
MergeStep(p) == pc[p] = "config" /\ pc'[p] = "load"

\* C25: after the merge every field holds the first present value in the
\* order flag, environment, file, default (the address alone has one), and
\* holds the value of a tier exactly if that tier is present and every
\* higher one absent.
C25_FirstPresentTierWins ==
    [][\A p \in Procs :
          MergeStep(p)
          => \A f \in Fields :
                /\ cfg'[p][f] = FirstPresent(Tiers(p, f))
                /\ \A i \in 1..Len(Tiers(p, f)) :
                      (IsSome(Tiers(p, f)[i]) /\ cfg'[p][f] = Tiers(p, f)[i])
                      <=> /\ IsSome(Tiers(p, f)[i])
                          /\ \A j \in 1..(i - 1) : Tiers(p, f)[j] = None
      ]_vars

\* Merged: the address from the environment over the file's, the
\* certificate from the file, the user name from the flag over both, no
\* password, and the key from the environment.
C25_Witness ==
    /\ pc[1] = "load"
    /\ cfg[1].addr = Some(DefaultPort + 2) /\ envCfg.addr = cfg[1].addr
    /\ IsSome(cfgFile) /\ Unwrap(cfgFile).addr = Some(DefaultPort + 3)
    /\ cfg[1].tls_cert = Some("file") /\ envCfg.tls_cert = None
    /\ cfg[1].tls_key = Some("env")
    /\ cfg[1].basic_user = Some(<<"flag">>)
    /\ envCfg.basic_user = Some(<<"env">>)
    /\ Unwrap(cfgFile).basic_user = Some(<<"file">>)
    /\ cfg[1].basic_pass = None

\* A step of the daemon p on the way from the top of main to the probe of
\* the recorded port.
AttachPathStep(p) ==
    pc[p] \in {"main", "config", "load", "probe"} /\ pc'[p] # pc[p]

\* C26: a start invocation that attaches to a live instance has changed
\* neither pid.yaml nor config.json nor drawn a secret on its way, holds no
\* secret, port or listener of its own, and has printed the URL made of the
\* scheme, port and secret of the record it loaded.
C26_AttachChangesNothing ==
    /\ [](\A p \in Procs :
            (outcome[p] = "attached")
            => /\ IsSome(info[p])
               /\ IsSome(printed[p])
               /\ Unwrap(printed[p]).port = Unwrap(info[p]).port
               /\ Unwrap(printed[p]).token = Unwrap(info[p]).auth_token
               /\ Unwrap(printed[p]).scheme = "https" <=> Unwrap(info[p]).tls
               /\ Unwrap(printed[p]).scheme \in {"http", "https"}
               /\ auth_token[p] = "" /\ chosen_port[p] = 0 /\ ~served[p]
               /\ ~RecordOf(p))
    /\ [][\A p \in Procs :
            AttachPathStep(p) => UNCHANGED <<fileVars, nextToken, served>>
         ]_vars

\* An invocation attached to a TLS instance: it printed an https URL with
\* the instance's port and secret, and record and configuration are those
\* the instance wrote.
C26_Witness ==
    \E p \in Procs : \E q \in Procs \ {p} :
        /\ outcome[p] = "attached" /\ LiveIntact(p, q)
        /\ printed[p] = Some([scheme |-> "https", port |-> chosen_port[q],
                              token |-> auth_token[q]])
        /\ cfgFile = Some(cfg[q]) /\ nextToken = 1

\* C27: the clear_run_info of a server that ends removes no record that
\* another instance wrote.
C27_CleanupRemovesOwnRecord ==
    [][\A a \in Procs :
          ServerExits(a) => \A b \in Procs \ {a} : ~RecordOf(b)
      ]_vars

\* Instance b found a's record stale, replaced it by its own and is
\* serving; a has since ended, and there is no record.
C27_Witness ==
    \E a \in Procs : \E b \in Procs \ {a} :
        /\ pc[a] = "exited" /\ outcome[a] = "stopped"
        /\ Listening(b) /\ IsSome(info[b]) /\ Unwrap(info[b]).pid = a
        /\ runFile = None

\* Exactly one of user name and password is configured.
OnlyOneConfigured(config) ==
    IsSome(config.basic_user) # IsSome(config.basic_pass)

\* C28: a privileged request is answered "basic auth required" only by a
\* server with both a user name and a password configured, and such a server
\* answers so to every request without an Authorization header; a server
\* with one of the two, or neither, never asks for basic auth, and answers
\* 200 to a request with the right cookie and no Authorization header.
C28_BasicGateOnlyWithBoth ==
    Privileged
    => LET config == cfg[resp.srv]
           cookie == FirstTblTokenIs(resp.headers, auth_token[resp.srv])
           r == resp.response
       IN  /\ r.www_authenticate => BasicConfigured(config)
           /\ (BasicConfigured(config) /\ resp.headers.authz = NoAuthz)
                 => r.status = 401 /\ r.www_authenticate
           /\ (~BasicConfigured(config) /\ cookie
                                        /\ resp.headers.authz = NoAuthz)
                 => r.status = 200
           /\ (~BasicConfigured(config) /\ ~cookie)
                 => r = Rejection("cookie")

\* A server with a user name and no password answered 200 to a ping with
\* the right cookie and no Authorization header.
C28_Witness ==
    /\ resp.ep = "ping"
    /\ OnlyOneConfigured(cfg[resp.srv]) /\ IsSome(cfg[resp.srv].basic_user)
    /\ resp.headers = Headers(Cookie(<<<<"tbl_token", auth_token[resp.srv]>>>>),
                              NoAuthz)
    /\ resp.response.status = 200

\* C29: the port find_available_port returns is at least the base port and
\* at most the smaller of base port + 99 and 65535: the candidate stops at
\* 65535 instead of wrapping, and no port beyond the 100th candidate is
\* returned.
C29_ChosenPortInRange ==
    \A p \in Procs :
        (pc[p] = "savecfg" \/ outcome[p] = "addr_invalid")
        => LET base_port == Unwrap(cfg[p].addr)
               last == IF base_port + MaxAttempts - 1 < MaxPort
                       THEN base_port + MaxAttempts - 1 ELSE MaxPort
           IN  /\ base_port <= chosen_port[p] /\ chosen_port[p] <= last
               /\ chosen_port[p] # base_port => chosen_port[p] \notin extOpen

\* From 65534 with 65534 and 65535 occupied: 65535 was probed again and
\* again, and the base port came back.
C29_Witness ==
    /\ PortChosen(1) /\ ParsesAsSocketAddr(host)
    /\ Unwrap(cfg[1].addr) = MaxPort - 1
    /\ extOpen = {MaxPort - 1, MaxPort}
    /\ chosen_port[1] = MaxPort - 1

====
